---- MODULE Spec2Model ----
(***************************************************************************)
(* Apple Books annotation import: the annotation reconciliation and        *)
(* ordering engine of src/database.ts (AppleBooksDatabase), the import     *)
(* loops that drive it (metadata enrichment, counting, note writing), the  *)
(* chapter label of a location, and the reader of the book's container.    *)
(*                                                                         *)
(* JavaScript strings are modelled as sequences of one-character strings,  *)
(* so that startsWith, substring, split, the regular expressions and trim  *)
(* are computed character by character as the code computes them.          *)
(***************************************************************************)
EXTENDS Integers, Sequences, FiniteSets, TLC

VARIABLES
    pc,               \* position of the modelled call
    rows,             \* result of executeSqlQueryWithHeaders for one book
    sortAnnotations,  \* settings.sortAnnotations
    annotations,      \* the `annotations` array of the import loop
    groupInput,       \* history: the array handed to groupConsecutiveNullLocationAnnotations
    sortInput,        \* history: the array handed to sortAnnotationsByCFI
    groupArg,         \* the array object handed to the grouping, as it is now
    sortArg,          \* the array object handed to sortAnnotationsByCFI, as it is now
    cfi,              \* argument of parseCFIForSorting and of extractChapterFromCFI
    numbers,          \* result of parseCFIForSorting
    entry,            \* which import runs: importAllBooks or importSelectedBooks
    settings,         \* this.settings, the fields the import reads
    book,             \* the BookDetail object the caller supplied, as it is now
    bookAtEntry,      \* history: that object when the iteration started
    epubMetadata,     \* what getEpubMetadata resolved to in the import loop
    enrichedBook,     \* the object handed to importBook
    aliased,          \* enrichedBook and book are the same object
    chapter,          \* result of extractChapterFromCFI
    chapterAgain,     \* result of a second call on the same location
    books,            \* the books the import loop iterates over
    bookIndex,        \* position of the loop in books
    importedCount,    \* importedCount of the loop
    skippedCount,     \* skippedCount of the loop
    vault,            \* the notes, folders and author page of the vault
    vaultAtStart,     \* history: the vault when the import started
    log,              \* history: how each iteration ended
    calls,            \* history: the calls the import made, in order
    run,              \* 1, or 2 when the command is run again on the same books
    firstLog,         \* history: log of the first run
    epubFiles,        \* what the file system holds at the path of a book
    epubResult,       \* how the call of getEpubMetadata ended
    command,          \* the command that runs: an import or the book selector
    queued,           \* how many books the command works on
    wantsEpub,        \* the settings and the book paths ask for the container
    ops,              \* per book and asynchronous call: not started, in flight, settled
    loopIndex,        \* the book the import loop is at
    coverOpf,         \* what the regular expressions of findCoverImage find in the OPF
    coverFiles,       \* the files of the EPUB directory, as paths below it
    coverUnlistable,  \* the directories of it that readdirSync fails on
    coverResult,      \* what findCoverImage returned
    booksToDisplay,   \* BookSelectionModal: the displayed books, by assetId
    selectionStates,  \* BookSelectionModal: assetId -> selected
    selectAllCheckbox,\* BookSelectionModal: checked and indeterminate of the control
    lastEvent,        \* history: the last thing the user did in the modal
    callbackCalls     \* history: the arguments of each call of onImportCallback

\* the variables of the annotation pipeline and of the location parser
pipelineVars ==
    <<rows, sortAnnotations, annotations, groupInput, sortInput, groupArg, sortArg, cfi, numbers>>

\* the variables of the metadata enrichment
mergeVars == <<entry, settings, book, bookAtEntry, epubMetadata, enrichedBook, aliased>>

\* the variables of the chapter label
chapterVars == <<chapter, chapterAgain>>

\* the variables of the import loop over the books
batchVars ==
    <<books, bookIndex, importedCount, skippedCount, vault, vaultAtStart, log, calls, run, firstLog>>

\* the variables of the container reader
epubVars == <<epubFiles, epubResult>>

\* the variables of the order in which the asynchronous calls run
scheduleVars == <<command, queued, wantsEpub, ops, loopIndex>>

\* the variables of the later sections
\* the variables of the cover search
coverVars == <<coverOpf, coverFiles, coverUnlistable, coverResult>>

\* the variables of the selection modal
modalVars == <<booksToDisplay, selectionStates, selectAllCheckbox, lastEvent, callbackCalls>>

laterVars == <<scheduleVars, coverVars, modalVars>>

\* the variables the annotation pipeline never touches
otherVars == <<mergeVars, chapterVars, batchVars, epubVars, laterVars>>

vars == <<pc, pipelineVars, otherVars>>

\* values of the variables a specification does not use
MergeIdle ==
    /\ entry = "none"
    /\ settings = <<>>
    /\ book = <<>>
    /\ bookAtEntry = <<>>
    /\ epubMetadata = <<>>
    /\ enrichedBook = <<>>
    /\ aliased = FALSE

ChapterIdle ==
    /\ chapter = <<>>
    /\ chapterAgain = <<>>

BatchIdle ==
    /\ books = <<>>
    /\ bookIndex = 0
    /\ importedCount = 0
    /\ skippedCount = 0
    /\ vault = <<>>
    /\ vaultAtStart = <<>>
    /\ log = <<>>
    /\ calls = <<>>
    /\ run = 0
    /\ firstLog = <<>>

EpubIdle ==
    /\ epubFiles = <<>>
    /\ epubResult = <<>>

ScheduleIdle ==
    /\ command = "none"
    /\ queued = 0
    /\ wantsEpub = FALSE
    /\ ops = <<>>
    /\ loopIndex = 0

CoverIdle ==
    /\ coverOpf = <<>>
    /\ coverFiles = {}
    /\ coverUnlistable = {}
    /\ coverResult = <<>>

ModalIdle ==
    /\ booksToDisplay = <<>>
    /\ selectionStates = <<>>
    /\ selectAllCheckbox = <<>>
    /\ lastEvent = <<>>
    /\ callbackCalls = <<>>

LaterIdle == ScheduleIdle /\ CoverIdle /\ ModalIdle

OtherIdle == MergeIdle /\ ChapterIdle /\ BatchIdle /\ EpubIdle /\ LaterIdle

-----------------------------------------------------------------------------
(* Values *)

\* JavaScript null in a string-typed field (never a character sequence: the
\* elements of a string are one-character strings)
NULL == <<"null">>

\* JavaScript null in a number-typed field (physicalLocation is non-negative)
NONE == -1

NL == "\n"

EmptyString == <<>>

Min(a, b) == IF a < b THEN a ELSE b

\* v || d on a string-or-null value: null and '' are falsy
OrElse(v, d) == IF v = NULL \/ v = EmptyString THEN d ELSE v

-----------------------------------------------------------------------------
(* String primitives used by parseCFIForSorting *)

DigitChars == {"0", "1", "2", "3", "4", "5", "6", "7", "8", "9"}

DigitVal(c) ==
    CASE c = "0" -> 0 [] c = "1" -> 1 [] c = "2" -> 2 [] c = "3" -> 3
      [] c = "4" -> 4 [] c = "5" -> 5 [] c = "6" -> 6 [] c = "7" -> 7
      [] c = "8" -> 8 [] c = "9" -> 9

\* 'epubcfi('
CfiPrefix == <<"e", "p", "u", "b", "c", "f", "i", "(">>

\* String.prototype.startsWith
StartsWith(s, p) == Len(s) >= Len(p) /\ SubSeq(s, 1, Len(p)) = p

Clamp(n, len) == IF n < 0 THEN 0 ELSE IF n > len THEN len ELSE n

\* String.prototype.substring(start, end): both clamped to [0, length] and
\* swapped when start > end; zero-based, end exclusive
Substring(s, start, end) ==
    LET a == Clamp(start, Len(s))
        b == Clamp(end, Len(s))
    IN  IF a <= b THEN SubSeq(s, a + 1, b) ELSE SubSeq(s, b + 1, a)

\* index of the first occurrence of character c in s at or after from, 0 if none
RECURSIVE IndexOf(_, _, _)
IndexOf(s, c, from) ==
    IF from > Len(s) THEN 0
    ELSE IF s[from] = c THEN from
    ELSE IndexOf(s, c, from + 1)

\* content.split('!')
RECURSIVE SplitBang(_)
SplitBang(s) ==
    LET i == IndexOf(s, "!", 1)
    IN  IF i = 0 THEN <<s>>
        ELSE <<SubSeq(s, 1, i - 1)>> \o SplitBang(SubSeq(s, i + 1, Len(s)))

\* part.replace(/\[[^\]]*\]/g, ''): each match runs from a '[' to the first
\* ']' after it; a '[' with no ']' after it matches nothing
RECURSIVE RemoveBracketed(_)
RemoveBracketed(part) ==
    LET i == IndexOf(part, "[", 1)
        j == IF i = 0 THEN 0 ELSE IndexOf(part, "]", i + 1)
    IN  IF i = 0 \/ j = 0 THEN part
        ELSE SubSeq(part, 1, i - 1) \o RemoveBracketed(SubSeq(part, j + 1, Len(part)))

\* length of the maximal run of digits of s starting at index from
RECURSIVE DigitRunLen(_, _)
DigitRunLen(s, from) ==
    IF from > Len(s) \/ s[from] \notin DigitChars THEN 0
    ELSE 1 + DigitRunLen(s, from + 1)

\* cleanPart.match(/\d+/g) || []: the maximal digit runs, left to right
RECURSIVE MatchDigits(_)
MatchDigits(s) ==
    IF s = <<>> THEN <<>>
    ELSE IF s[1] \notin DigitChars THEN MatchDigits(Tail(s))
    ELSE LET n == DigitRunLen(s, 1)
         IN  <<SubSeq(s, 1, n)>> \o MatchDigits(SubSeq(s, n + 1, Len(s)))

\* parseInt(n, 10) on a string of digits
RECURSIVE ParseInt(_)
ParseInt(n) ==
    IF n = <<>> THEN 0
    ELSE 10 * ParseInt(SubSeq(n, 1, Len(n) - 1)) + DigitVal(n[Len(n)])

\* the body of the for loop over parts: numbers.push(...nums.map(parseInt))
RECURSIVE PartsNumbers(_)
PartsNumbers(parts) ==
    IF parts = <<>> THEN <<>>
    ELSE LET cleanPart == RemoveBracketed(Head(parts))
             nums == MatchDigits(cleanPart)
         IN  [k \in 1..Len(nums) |-> ParseInt(nums[k])] \o PartsNumbers(Tail(parts))

\* AppleBooksDatabase.parseCFIForSorting
ParseCFIForSorting(s) ==
    IF s = EmptyString \/ ~StartsWith(s, CfiPrefix) THEN <<0>>
    ELSE LET content == Substring(s, 8, Len(s) - 1)
             parts == SplitBang(content)
             nums == PartsNumbers(parts)
         IN  IF Len(nums) > 0 THEN nums ELSE <<0>>

-----------------------------------------------------------------------------
(* Raw rows and their mapping to Annotation records (getAnnotationsForBook) *)

\* a value is truthy in JavaScript: a row value is null or a non-empty string
Truthy(v) == v # NULL /\ v # EmptyString

WhitespaceChars == {" ", "\t", "\n", "\r"}

\* String.prototype.trim
RECURSIVE TrimStart(_)
TrimStart(s) ==
    IF s # <<>> /\ Head(s) \in WhitespaceChars THEN TrimStart(Tail(s)) ELSE s

RECURSIVE TrimEnd(_)
TrimEnd(s) ==
    IF s # <<>> /\ s[Len(s)] \in WhitespaceChars
    THEN TrimEnd(SubSeq(s, 1, Len(s) - 1))
    ELSE s

Trim(s) == TrimEnd(TrimStart(s))

\* the .map callback of getAnnotationsForBook
MapRow(row) ==
    [ selectedText     |-> OrElse(row.ZANNOTATIONSELECTEDTEXT, EmptyString),
      note             |-> OrElse(row.ZANNOTATIONNOTE, NULL),
      location         |-> OrElse(row.ZANNOTATIONLOCATION, NULL),
      physicalLocation |-> IF Truthy(row.ZPLABSOLUTEPHYSICALLOCATION)
                           THEN ParseInt(row.ZPLABSOLUTEPHYSICALLOCATION)
                           ELSE NONE,
      annotationType   |-> NULL,
      annotationStyle  |-> OrElse(row.ZANNOTATIONSTYLE, NULL),
      isUnderline      |-> IF Truthy(row.ZANNOTATIONISUNDERLINE)
                           THEN ParseInt(row.ZANNOTATIONISUNDERLINE) = 1
                           ELSE FALSE,
      creationDate     |-> NULL,
      modificationDate |-> NULL,
      uuid             |-> NULL,
      representativeText |-> NULL ]

\* the .filter callback of getAnnotationsForBook (and of the import loop)
HasText(annotation) == Len(Trim(annotation.selectedText)) > 0

-----------------------------------------------------------------------------
(* groupConsecutiveNullLocationAnnotations *)

\* Array.prototype.join over strings
RECURSIVE Join(_, _)
Join(texts, sep) ==
    IF texts = <<>> THEN <<>>
    ELSE IF Len(texts) = 1 THEN texts[1]
    ELSE texts[1] \o <<sep>> \o Join(Tail(texts), sep)

SelectedTexts(group) == [k \in 1..Len(group) |-> group[k].selectedText]

\* variant: only the location field is consulted
IsNullLocation_LocationOnly(annotation) == annotation.location = NULL

\* variant: only the physical location field is consulted
IsNullLocation_PhysicalOnly(annotation) == annotation.physicalLocation = NONE

\* the condition of the if: both position fields are null
IsNullLocation(annotation) ==
    annotation.location = NULL /\ annotation.physicalLocation = NONE

\* variant: the first fragment, not the located annotation, is the base
CombineWithAnchor_FirstBase(nullLocationGroup, annotation) ==
    [nullLocationGroup[1] EXCEPT
        !.selectedText = Join(SelectedTexts(Append(nullLocationGroup, annotation)), NL)]

\* variant: the collected fragments are dropped
CombineWithAnchor_AnchorOnly(nullLocationGroup, annotation) == annotation

\* { ...annotation, selectedText: [...nullLocationGroup, annotation].join('\n') }
CombineWithAnchor(nullLocationGroup, annotation) ==
    [annotation EXCEPT
        !.selectedText = Join(SelectedTexts(Append(nullLocationGroup, annotation)), NL)]

\* variant: the last fragment, not the first, is the base
CombineTrailing_LastBase(nullLocationGroup) ==
    [nullLocationGroup[Len(nullLocationGroup)] EXCEPT
        !.selectedText = Join(SelectedTexts(nullLocationGroup), NL)]

\* { ...nullLocationGroup[0], selectedText: nullLocationGroup.join('\n') }
CombineTrailing(nullLocationGroup) ==
    [nullLocationGroup[1] EXCEPT
        !.selectedText = Join(SelectedTexts(nullLocationGroup), NL)]

\* the for loop and the trailing-group step, from element i on
RECURSIVE GroupLoop(_, _, _, _)
GroupLoop(anns, i, result, nullLocationGroup) ==
    IF i > Len(anns)
    THEN IF Len(nullLocationGroup) > 0
         THEN Append(result, CombineTrailing(nullLocationGroup))
         ELSE result
    ELSE LET annotation == anns[i]
         IN  IF IsNullLocation(annotation)
             THEN GroupLoop(anns, i + 1, result, Append(nullLocationGroup, annotation))
             ELSE IF Len(nullLocationGroup) > 0
             THEN GroupLoop(anns, i + 1,
                            Append(result, CombineWithAnchor(nullLocationGroup, annotation)),
                            <<>>)
             ELSE GroupLoop(anns, i + 1, Append(result, annotation), nullLocationGroup)

GroupConsecutiveNullLocationAnnotations(anns) == GroupLoop(anns, 1, <<>>, <<>>)

\* variant: the rows are mapped and handed to the grouping unfiltered
MappedAndFiltered_NoFilter(rs) ==
    [k \in 1..Len(rs) |-> MapRow(rs[k])]

\* results.map(...).filter(...): the array handed to the grouping
MappedAndFiltered(rs) ==
    SelectSeq([k \in 1..Len(rs) |-> MapRow(rs[k])], HasText)

-----------------------------------------------------------------------------
(* sortAnnotationsByCFI *)

\* variant: a full tie on the compared elements puts the longer key first
CompareLoop_LongerFirst(aCfi, bCfi, i) ==
    LET D == {k \in 1..Min(Len(aCfi), Len(bCfi)) : aCfi[k] # bCfi[k]}
        d == CHOOSE k \in D : \A m \in D : k <= m
    IN  IF D # {} THEN aCfi[d] - bCfi[d] ELSE Len(bCfi) - Len(aCfi)

\* variant: the comparator never answers 0
CompareLoop_NoTie(aCfi, bCfi, i) ==
    LET D == {k \in 1..Min(Len(aCfi), Len(bCfi)) : aCfi[k] # bCfi[k]}
        d == CHOOSE k \in D : \A m \in D : k <= m
    IN  IF D # {} THEN aCfi[d] - bCfi[d]
        ELSE IF Len(aCfi) < Len(bCfi) THEN -1 ELSE 1

\* the for loop of the comparator, from index i on, and the final return
RECURSIVE CompareLoop(_, _, _)
CompareLoop(aCfi, bCfi, i) ==
    IF i > Min(Len(aCfi), Len(bCfi)) THEN Len(aCfi) - Len(bCfi)
    ELSE IF aCfi[i] # bCfi[i] THEN aCfi[i] - bCfi[i]
    ELSE CompareLoop(aCfi, bCfi, i + 1)

\* variant: the physical location decides when both records carry one
CompareByCFI_PhysicalFirst(a, b) ==
    IF a.physicalLocation # NONE /\ b.physicalLocation # NONE
    THEN a.physicalLocation - b.physicalLocation
    ELSE CompareLoop(ParseCFIForSorting(OrElse(a.location, EmptyString)),
                     ParseCFIForSorting(OrElse(b.location, EmptyString)), 1)

\* the comparator passed to Array.prototype.sort
CompareByCFI(a, b) ==
    CompareLoop(ParseCFIForSorting(OrElse(a.location, EmptyString)),
                ParseCFIForSorting(OrElse(b.location, EmptyString)), 1)

\* Array.prototype.sort is stable: an element goes after every element that
\* does not compare greater than it
RECURSIVE InsertStable(_, _)
InsertStable(sorted, x) ==
    IF sorted = <<>> THEN <<x>>
    ELSE IF CompareByCFI(sorted[Len(sorted)], x) <= 0 THEN Append(sorted, x)
    ELSE Append(InsertStable(SubSeq(sorted, 1, Len(sorted) - 1), x), sorted[Len(sorted)])

RECURSIVE SortLoop(_, _, _)
SortLoop(anns, i, sorted) ==
    IF i > Len(anns) THEN sorted
    ELSE SortLoop(anns, i + 1, InsertStable(sorted, anns[i]))

\* AppleBooksDatabase.sortAnnotationsByCFI
SortAnnotationsByCFI(anns) == SortLoop(anns, 1, <<>>)

-----------------------------------------------------------------------------
(* Raw rows of the grouping specification *)

MaxRows == 3

SeqsUpTo(S, n) == UNION {[1..k -> S] : k \in 0..n}

\* epubcfi(/6/4[chap1]!/2,:0,:1)
LocChap1 ==
    CfiPrefix \o <<"/", "6", "/", "4", "[", "c", "h", "a", "p", "1", "]", "!",
                   "/", "2", ",", ":", "0", ",", ":", "1", ")">>

MakeRow(text, note, loc, phys, style, underline) ==
    [ ZANNOTATIONSELECTEDTEXT     |-> text,
      ZANNOTATIONNOTE             |-> note,
      ZANNOTATIONLOCATION         |-> loc,
      ZPLABSOLUTEPHYSICALLOCATION |-> phys,
      ZANNOTATIONSTYLE            |-> style,
      ZANNOTATIONISUNDERLINE      |-> underline ]

\* a line of sqlite3 output that carries no column at all (a blank line
\* inside a multi-line highlight): every value is null
BlankRow == MakeRow(NULL, NULL, NULL, NULL, NULL, NULL)

GroupRowTexts == {<<"a">>, <<"b">>, <<" ">>}

\* <<location, physical location>>: none, location only, physical only, both
GroupRowAnchors ==
    {<<NULL, NULL>>, <<LocChap1, NULL>>, <<NULL, <<"5">> >>, <<LocChap1, <<"5">> >>}

\* <<note, style, underline>>
GroupRowExtras == {<<NULL, NULL, NULL>>, <<<<"n">>, <<"3">>, <<"1">> >>}

GroupRows ==
    {MakeRow(t, x[1], a[1], a[2], x[2], x[3]) :
        t \in GroupRowTexts, a \in GroupRowAnchors, x \in GroupRowExtras}
    \cup {BlankRow}

-----------------------------------------------------------------------------
(* Operations of the import loop *)

\* AppleBooksDatabase.getAnnotationsForBook: map, filter, group
GetAnnotationsForBook ==
    /\ pc = "fetch"
    /\ groupInput' = MappedAndFiltered(rows)
    /\ groupArg' = MappedAndFiltered(rows)
    /\ annotations' = GroupConsecutiveNullLocationAnnotations(MappedAndFiltered(rows))
    /\ pc' = "grouped"
    /\ UNCHANGED <<rows, sortAnnotations, sortInput, sortArg, cfi, numbers, otherVars>>

InitGroup ==
    /\ pc = "fetch"
    /\ rows \in SeqsUpTo(GroupRows, MaxRows)
    /\ sortAnnotations = FALSE
    /\ annotations = <<>>
    /\ groupInput = <<>>
    /\ sortInput = <<>>
    /\ groupArg = <<>>
    /\ sortArg = <<>>
    /\ cfi = <<>>
    /\ numbers = <<>>
    /\ OtherIdle

NextGroup == GetAnnotationsForBook

SpecGroup == InitGroup /\ [][NextGroup]_vars

-----------------------------------------------------------------------------
(* The import loop on one book: fetch, then filter and sort *)

MaxImportRows == 3

\* epubcfi(/2)
Loc2 == CfiPrefix \o <<"/", "2", ")">>

\* epubcfi(/2[x9]): another identifier with the same integers outside brackets
Loc2Label == CfiPrefix \o <<"/", "2", "[", "x", "9", "]", ")">>

\* epubcfi(/2!/4)
Loc2Then4 == CfiPrefix \o <<"/", "2", "!", "/", "4", ")">>

\* epubcfi(/4)
Loc4 == CfiPrefix \o <<"/", "4", ")">>

\* epubcfi(/10)
Loc10 == CfiPrefix \o <<"/", "1", "0", ")">>

\* <<location, physical location>>
ImportRowAnchors ==
    { <<NULL, NULL>>, <<NULL, <<"1", "2">> >>,
      <<Loc2, <<"4", "5">> >>, <<Loc2Label, <<"4", "5">> >>, <<Loc2Then4, NULL>>,
      <<Loc4, <<"4", "5">> >>, <<Loc10, <<"1", "2">> >> }

ImportRows ==
    {MakeRow(<<"a">>, NULL, a[1], a[2], NULL, NULL) : a \in ImportRowAnchors}
    \cup {MakeRow(<<"b">>, NULL, NULL, NULL, NULL, NULL),
          MakeRow(<<"b">>, NULL, Loc2, <<"4", "5">>, NULL, NULL),
          MakeRow(<<" ">>, NULL, Loc2, <<"4", "5">>, NULL, NULL)}

\* variant: the loop sorts whatever the setting says
FilterAndSort_AlwaysSort ==
    /\ pc = "grouped"
    /\ LET kept == SelectSeq(annotations, HasText)
       IN  IF Len(kept) = 0
           THEN /\ annotations' = kept
                /\ pc' = "skipped"
                /\ UNCHANGED <<sortInput, sortArg>>
           ELSE /\ sortInput' = kept
                /\ sortArg' = SortAnnotationsByCFI(kept)
                /\ annotations' = SortAnnotationsByCFI(kept)
                /\ pc' = "reconciled"
    /\ UNCHANGED <<rows, sortAnnotations, groupInput, groupArg, cfi, numbers, otherVars>>

\* the import loop after the fetch returned: drop records without text, skip
\* the book when none is left, sort when the setting is on. Array.prototype.sort
\* orders the array it is called on and returns that same array, so the array
\* handed to sortAnnotationsByCFI holds the sorted order afterwards.
FilterAndSort ==
    /\ pc = "grouped"
    /\ LET kept == SelectSeq(annotations, HasText)
       IN  IF Len(kept) = 0
           THEN /\ annotations' = kept
                /\ pc' = "skipped"
                /\ UNCHANGED <<sortInput, sortArg>>
           ELSE IF sortAnnotations
           THEN /\ sortInput' = kept
                /\ sortArg' = SortAnnotationsByCFI(kept)
                /\ annotations' = SortAnnotationsByCFI(kept)
                /\ pc' = "reconciled"
           ELSE /\ annotations' = kept
                /\ pc' = "reconciled"
                /\ UNCHANGED <<sortInput, sortArg>>
    /\ UNCHANGED <<rows, sortAnnotations, groupInput, groupArg, cfi, numbers, otherVars>>

InitImport ==
    /\ pc = "fetch"
    /\ rows \in SeqsUpTo(ImportRows, MaxImportRows)
    /\ sortAnnotations \in BOOLEAN
    /\ annotations = <<>>
    /\ groupInput = <<>>
    /\ sortInput = <<>>
    /\ groupArg = <<>>
    /\ sortArg = <<>>
    /\ cfi = <<>>
    /\ numbers = <<>>
    /\ OtherIdle

NextImport == GetAnnotationsForBook \/ FilterAndSort

SpecImport == InitImport /\ [][NextImport]_vars

-----------------------------------------------------------------------------
(* Claims about groupConsecutiveNullLocationAnnotations (coalesce) *)

\* a record with usable positional data
Anchored(a) == a.location # NULL \/ a.physicalLocation # NONE

AnchoredUpTo(s, j) == Cardinality({k \in 1..j : Anchored(s[k])})

\* first index of the maximal run of unanchored records that ends right
\* before index j (j itself when there is no such run)
RunStart(s, j) ==
    CHOOSE i \in 1..j :
        /\ \A k \in i..(j - 1) : ~Anchored(s[k])
        /\ i = 1 \/ Anchored(s[i - 1])

\* the texts of s[i..j], in order, separated by newlines
RECURSIVE TextOfRange(_, _, _)
TextOfRange(s, i, j) ==
    IF i = j THEN s[i].selectedText
    ELSE TextOfRange(s, i, j - 1) \o <<NL>> \o s[j].selectedText

EndsUnanchored(s) == Len(s) > 0 /\ ~Anchored(s[Len(s)])

ExpectedLength(s) == AnchoredUpTo(s, Len(s)) + (IF EndsUnanchored(s) THEN 1 ELSE 0)

\* concatenation of all selectedText, in order
RECURSIVE AllText(_)
AllText(s) == IF s = <<>> THEN <<>> ELSE Head(s).selectedText \o AllText(Tail(s))

\* t is s with zero or more copies of character c inserted
RECURSIVE InsertedOnly(_, _, _)
InsertedOnly(s, t, c) ==
    IF t = <<>> THEN s = <<>>
    ELSE \/ s # <<>> /\ Head(s) = Head(t) /\ InsertedOnly(Tail(s), Tail(t), c)
         \/ Head(t) = c /\ InsertedOnly(s, Tail(t), c)

\* w occurs in t as a contiguous piece
Contains(t, w) ==
    \E i \in 0..(Len(t) - Len(w)) : SubSeq(t, i + 1, i + Len(w)) = w

\* C1: each maximal run of unanchored records followed by an anchored record
\* yields exactly one output record, whose text is the run's texts then the
\* anchor's text joined by newlines and whose other fields are the anchor's.
C1_RunMergedIntoAnchor ==
    pc = "grouped" =>
        /\ Len(annotations) = ExpectedLength(groupInput)
        /\ \A j \in 2..Len(groupInput) :
              (Anchored(groupInput[j]) /\ ~Anchored(groupInput[j - 1])) =>
                  annotations[AnchoredUpTo(groupInput, j)] =
                      [groupInput[j] EXCEPT
                          !.selectedText =
                              TextOfRange(groupInput, RunStart(groupInput, j), j)]

C1_Witness ==
    /\ pc = "grouped"
    /\ Len(groupInput) = 3
    /\ ~Anchored(groupInput[1]) /\ ~Anchored(groupInput[2]) /\ Anchored(groupInput[3])
    /\ groupInput[1].note # NULL /\ groupInput[3].note = NULL
    /\ Len(annotations) = 1
    /\ annotations[1].note = NULL

\* C2: no text is dropped or reordered: the output texts, concatenated, are
\* the input texts, concatenated, plus the inserted newline separators (one
\* per merged-away record); every unanchored text occurs in an output record.
C2_TextPreserved ==
    pc = "grouped" =>
        /\ Len(annotations) <= Len(groupInput)
        /\ Len(AllText(annotations)) =
              Len(AllText(groupInput)) + (Len(groupInput) - Len(annotations))
        /\ InsertedOnly(AllText(groupInput), AllText(annotations), NL)
        /\ \A i \in 1..Len(groupInput) :
              ~Anchored(groupInput[i]) =>
                  \E k \in 1..Len(annotations) :
                      Contains(annotations[k].selectedText, groupInput[i].selectedText)

C2_Witness ==
    /\ pc = "grouped"
    /\ Len(groupInput) = 3
    /\ ~Anchored(groupInput[1]) /\ Anchored(groupInput[2]) /\ ~Anchored(groupInput[3])
    /\ groupInput[1].selectedText # groupInput[2].selectedText
    /\ Len(annotations) = 2

\* C3: only the last output record can be unanchored, and it is exactly when
\* the input ends with a run of unanchored records.
C3_OnlyLastUnanchored ==
    pc = "grouped" =>
        /\ \A k \in 1..(Len(annotations) - 1) : Anchored(annotations[k])
        /\ (\E k \in 1..Len(annotations) : ~Anchored(annotations[k]))
              <=> EndsUnanchored(groupInput)

C3_Witness ==
    /\ pc = "grouped"
    /\ Len(groupInput) = 3
    /\ ~Anchored(groupInput[1]) /\ Anchored(groupInput[2]) /\ ~Anchored(groupInput[3])
    /\ Anchored(annotations[1])
    /\ ~Anchored(annotations[2])

\* C4: a trailing run of unanchored records is emitted as one last record:
\* the run's texts joined by newlines on the first fragment's fields.
C4_TrailingRun ==
    (pc = "grouped" /\ EndsUnanchored(groupInput)) =>
        /\ Len(annotations) = AnchoredUpTo(groupInput, Len(groupInput)) + 1
        /\ annotations[Len(annotations)] =
              [groupInput[RunStart(groupInput, Len(groupInput) + 1)] EXCEPT
                  !.selectedText =
                      TextOfRange(groupInput,
                                  RunStart(groupInput, Len(groupInput) + 1),
                                  Len(groupInput))]

C4_Witness ==
    /\ pc = "grouped"
    /\ Len(groupInput) = 3
    /\ Anchored(groupInput[1]) /\ ~Anchored(groupInput[2]) /\ ~Anchored(groupInput[3])
    /\ groupInput[2].note # groupInput[3].note
    /\ Len(annotations) = 2
    /\ annotations[2].note = groupInput[2].note

\* C5: with no unanchored record in the input the output is the input.
C5_IdentityWhenAllAnchored ==
    (pc = "grouped" /\ \A k \in 1..Len(groupInput) : Anchored(groupInput[k]))
        => annotations = groupInput

C5_Witness ==
    /\ pc = "grouped"
    /\ Len(groupInput) = 3
    /\ \A k \in 1..3 : Anchored(groupInput[k])
    /\ groupInput[1] # groupInput[2]
    /\ annotations = groupInput

-----------------------------------------------------------------------------
(* Claims about sortAnnotationsByCFI *)

\* the ordering key of a record: a null location counts as <<0>>
KeyOf(a) == IF a.location = NULL THEN <<0>> ELSE ParseCFIForSorting(a.location)

\* ka sorts strictly before kb: the first differing element is smaller, or
\* ka is a proper prefix of kb
KeyLess(ka, kb) ==
    \/ \E d \in 1..Min(Len(ka), Len(kb)) :
          /\ \A k \in 1..(d - 1) : ka[k] = kb[k]
          /\ ka[d] < kb[d]
    \/ /\ Len(ka) < Len(kb)
       /\ \A k \in 1..Len(ka) : ka[k] = kb[k]

Sorted == pc = "reconciled" /\ sortAnnotations

HasPhysical(a) == a.physicalLocation # NONE

\* the records of s whose physical location is p, in order
WithPhysical(s, p) == LET Test(a) == a.physicalLocation = p IN SelectSeq(s, Test)

\* the records of s whose ordering key is k, in order
WithKey(s, k) == LET Test(a) == KeyOf(a) = k IN SelectSeq(s, Test)

\* C6 as stated: of two sorted annotations that both carry a physical location
\* the one with the smaller physical location comes first.
C6_PhysicalLocationFirst ==
    Sorted =>
        \A i, j \in 1..Len(annotations) :
            (i < j /\ HasPhysical(annotations[i]) /\ HasPhysical(annotations[j]))
                => annotations[i].physicalLocation <= annotations[j].physicalLocation

\* C6 amended: of two sorted annotations that both carry a physical location
\* the one whose location has the smaller ordering key comes first, whatever
\* their physical locations are.
C6_LocationKeyFirst ==
    Sorted =>
        \A i, j \in 1..Len(annotations) :
            (i < j /\ HasPhysical(annotations[i]) /\ HasPhysical(annotations[j]))
                => \/ KeyLess(KeyOf(annotations[i]), KeyOf(annotations[j]))
                   \/ KeyOf(annotations[i]) = KeyOf(annotations[j])

C6_Witness ==
    /\ Sorted
    /\ Len(annotations) = 2
    /\ annotations[1].physicalLocation = 45
    /\ annotations[2].physicalLocation = 12
    /\ KeyLess(KeyOf(annotations[1]), KeyOf(annotations[2]))
    /\ sortInput[1].physicalLocation = 12

\* C7: the comparator orders two records by their keys: the first differing
\* element decides, on a tie the shorter key is first, equal keys compare
\* equal; a null location is the key <<0>>.
C7_ComparatorIsKeyOrder ==
    Sorted =>
        \A i, j \in 1..Len(sortInput) :
            LET a == sortInput[i]
                b == sortInput[j]
            IN  /\ CompareByCFI(a, b) < 0 <=> KeyLess(KeyOf(a), KeyOf(b))
                /\ CompareByCFI(a, b) = 0 <=> KeyOf(a) = KeyOf(b)
                /\ CompareByCFI(a, b) > 0 <=> KeyLess(KeyOf(b), KeyOf(a))

C7_Witness ==
    /\ Sorted
    /\ Len(sortInput) = 3
    /\ sortInput[1].location = Loc2Then4
    /\ sortInput[2].location = Loc2
    /\ sortInput[3].location = NULL
    /\ annotations = <<sortInput[3], sortInput[2], sortInput[1]>>

\* C8 as stated: records with the same physical location keep their fetch
\* order in the sorted output.
C8_StableOnPhysicalLocation ==
    Sorted =>
        \A p \in {12, 45} : WithPhysical(annotations, p) = WithPhysical(sortInput, p)

\* C8 amended: sorting the sorted output again changes nothing, an input that
\* is already in key order is returned unchanged, and records whose locations
\* have the same ordering key keep their fetch order.
C8_IdempotentAndStableOnKey ==
    Sorted =>
        /\ SortAnnotationsByCFI(annotations) = annotations
        /\ (\A i, j \in 1..Len(sortInput) :
               i < j => ~KeyLess(KeyOf(sortInput[j]), KeyOf(sortInput[i])))
              => annotations = sortInput
        /\ \A i \in 1..Len(sortInput) :
              WithKey(annotations, KeyOf(sortInput[i])) =
                  WithKey(sortInput, KeyOf(sortInput[i]))

C8_Witness ==
    /\ Sorted
    /\ Len(sortInput) = 3
    /\ KeyOf(sortInput[1]) = <<4>>
    /\ KeyOf(sortInput[2]) = <<2>>
    /\ KeyOf(sortInput[3]) = <<2>>
    /\ sortInput[2] # sortInput[3]
    /\ annotations = <<sortInput[2], sortInput[3], sortInput[1]>>

-----------------------------------------------------------------------------
(* Inputs of the parser *)

MaxLabelLen == 2
MaxBodyLen == 3

RECURSIVE StringsUpTo(_, _)
StringsUpTo(chars, n) ==
    IF n = 0 THEN {<<>>}
    ELSE LET shorter == StringsUpTo(chars, n - 1)
         IN  shorter \cup {Append(s, c) : s \in shorter, c \in chars}

\* characters a bracketed label is drawn from: a letter, a digit, and the
\* step separator, which the CFI grammar allows unescaped inside a label
LabelChars == {"a", "7", "!"}

Labels == StringsUpTo(LabelChars, MaxLabelLen)

NumStrs == {<<"6">>, <<"1", "0">>}

\* epubcfi(N1!N2[label]/N3,:N4,:N5)
BuildCfi(n1, n2, label, n3, n4, n5) ==
    CfiPrefix \o n1 \o <<"!">> \o n2 \o <<"[">> \o label \o <<"]">>
        \o <<"/">> \o n3 \o <<",", ":">> \o n4 \o <<",", ":">> \o n5 \o <<")">>

WellFormedCfis ==
    {BuildCfi(n[1], n[2], l, n[3], n[4], n[5]) : n \in [1..5 -> NumStrs], l \in Labels}

BodyChars == {"4", "5", "/", "[", "]"}

Wrappers == {CfiPrefix, <<"e", "p", "u", "b">>, <<>>}

ArbitraryStrings ==
    {w \o b \o e : w \in Wrappers, b \in StringsUpTo(BodyChars, MaxBodyLen),
                   e \in {<<")">>, <<>>}}

CfiInputs == WellFormedCfis \cup ArbitraryStrings

-----------------------------------------------------------------------------
(* Specification of a call of parseCFIForSorting *)

InitParse ==
    /\ pc = "parse"
    /\ cfi \in CfiInputs
    /\ numbers = <<>>
    /\ rows = <<>>
    /\ sortAnnotations = FALSE
    /\ annotations = <<>>
    /\ groupInput = <<>>
    /\ sortInput = <<>>
    /\ groupArg = <<>>
    /\ sortArg = <<>>
    /\ OtherIdle

CallParseCFIForSorting ==
    /\ pc = "parse"
    /\ numbers' = ParseCFIForSorting(cfi)
    /\ pc' = "parsed"
    /\ UNCHANGED <<cfi, rows, sortAnnotations, annotations, groupInput, sortInput, groupArg, sortArg,
                   otherVars>>

NextParse == CallParseCFIForSorting

SpecParse == InitParse /\ [][NextParse]_vars

-----------------------------------------------------------------------------
(* Claims about parseCFIForSorting *)

NumValue(n) == CASE n = <<"6">> -> 6 [] n = <<"1", "0">> -> 10

\* position p of s lies inside a [...] label: a '[' before it is not closed
\* before p, and a ']' follows
InBracket(s, p) ==
    /\ \E i \in 1..(p - 1) : s[i] = "[" /\ \A k \in i..p : s[k] # "]"
    /\ \E j \in (p + 1)..Len(s) : s[j] = "]"

NoDigitOutsideBrackets(s) ==
    \A p \in 1..Len(s) : s[p] \in DigitChars => InBracket(s, p)

\* C9: for every identifier epubcfi(N1!N2[label]/N3,:N4,:N5) the key is exactly
\* <<N1, N2, N3, N4, N5>>; digits inside the label contribute nothing.
C9_WellFormedKey ==
    pc = "parsed" =>
        \A n \in [1..5 -> NumStrs], l \in Labels :
            cfi = BuildCfi(n[1], n[2], l, n[3], n[4], n[5])
                => numbers = [k \in 1..5 |-> NumValue(n[k])]

\* C10: every string that lacks the prefix epubcfi(, or lacks the closing ),
\* or has no digit outside brackets, parses to exactly <<0>>.
C10_FallbackKey ==
    pc = "parsed" =>
        ((  ~StartsWith(cfi, CfiPrefix)
         \/ cfi = <<>>
         \/ cfi[Len(cfi)] # ")"
         \/ NoDigitOutsideBrackets(cfi) ) => numbers = <<0>>)

-----------------------------------------------------------------------------
(* Metadata enrichment of the import loops (importAllBooks and               *)
(* importSelectedBooks): the BookDetail of the library store is completed    *)
(* with what getEpubMetadata read from the book's container.                 *)

\* a property the object does not have
UNDEFINED == <<"undefined">>

\* v || d on a value that may be null, undefined or ''
Or(v, d) == IF v = NULL \/ v = UNDEFINED \/ v = EmptyString THEN d ELSE v

\* 'data:image/jpeg;base64,'
DataJpegPrefix ==
    <<"d", "a", "t", "a", ":", "i", "m", "a", "g", "e", "/", "j", "p", "e", "g",
      ";", "b", "a", "s", "e", "6", "4", ",">>

\* AppleBooksDatabase.mapBookResults: the record of one row of the library
\* store; the container fields start as null
MapBookResults(row) ==
    [assetId         |-> row.ZASSETID,
     title           |-> Or(row.ZSORTTITLE, <<"U", "n", "k", "n", "o", "w", "n", " ", "T", "i", "t", "l", "e">>),
     author          |-> Or(row.ZSORTAUTHOR, NULL),
     path            |-> Or(row.ZPATH, NULL),
     isbn            |-> NULL,
     language        |-> Or(row.ZLANGUAGE, NULL),
     publisher       |-> NULL,
     publicationDate |-> NULL,
     cover           |-> NULL,
     rights          |-> NULL,
     subjects        |-> NULL,
     coverImage      |-> UNDEFINED,
     coverPath       |-> UNDEFINED]

\* the fields of a BookDetail (coverImage is the modal item's, coverPath the
\* one importSelectedBooks adds)
BookFields ==
    {"assetId", "title", "author", "path", "isbn", "language", "publisher",
     "publicationDate", "cover", "rights", "subjects", "coverImage", "coverPath"}

\* the fields the enrichment literal names
MergedFields ==
    {"isbn", "language", "publisher", "publicationDate", "rights", "subjects", "cover"}

\* the object literal { ...b, isbn: m.isbn || b.isbn, ... } with the store
\* value second
MergeEpubMetadata_BaseFirst(b, m) ==
    [f \in BookFields |-> IF f \in MergedFields THEN Or(b[f], m[f]) ELSE b[f]]

\* the object literal without the spread of the store record
MergeEpubMetadata_NoSpread(b, m) ==
    [f \in BookFields |-> IF f \in MergedFields THEN Or(m[f], b[f]) ELSE UNDEFINED]

\* the object literal { ...b, isbn: m.isbn || b.isbn, ..., cover: m.cover || b.cover }
MergeEpubMetadata(b, m) ==
    [f \in BookFields |-> IF f \in MergedFields THEN Or(m[f], b[f]) ELSE b[f]]

\* AppleBooksImporterPlugin.saveCoverFile: the path of the saved cover, null
\* when covers are off, the book has none, or the vault write failed
CoverPathSaved == <<"C", "o", "v", "e", "r", ".", "j", "p", "g">>

SaveCoverFile(b) ==
    IF ~settings.includeCovers \/ b.cover \in {NULL, UNDEFINED, EmptyString}
    THEN {NULL}
    ELSE {CoverPathSaved, NULL}

\* book.path && (includeCovers || includeExtendedFrontmatter || includeExtendedInNote)
WantsEpubMetadata(b) ==
    /\ b.path \notin {NULL, UNDEFINED, EmptyString}
    /\ \/ settings.includeCovers
       \/ settings.includeExtendedFrontmatter
       \/ settings.includeExtendedInNote

\* importSelectedBooks: the cover the modal fetched, written into the item
ReuseModalCover(b) ==
    IF /\ WantsEpubMetadata(b)
       /\ b.coverImage \notin {NULL, UNDEFINED, EmptyString}
       /\ settings.includeCovers
    THEN [b EXCEPT !.cover =
              IF StartsWith(b.coverImage, DataJpegPrefix)
              THEN Substring(b.coverImage, Len(DataJpegPrefix), Len(b.coverImage))
              ELSE NULL]
    ELSE b

\* importSelectedBooks: whether getEpubMetadata is called after the reuse
Refetches(b) ==
    /\ WantsEpubMetadata(b)
    /\ \/ b.cover \in {NULL, UNDEFINED, EmptyString}
       \/ settings.includeExtendedFrontmatter
       \/ settings.includeExtendedInNote

(* Inputs of the enrichment *)

StoreTitle == <<"t">>
StoreAuthor == <<"a">>
StoreLanguage == <<"l">>
StorePath == <<"p">>
EpubValue == <<"e">>
EpubCover == <<"c">>

\* rows of the library store (ZBKLIBRARYASSET)
BookRows ==
    {[ZASSETID |-> <<"A">>, ZSORTTITLE |-> t, ZSORTAUTHOR |-> a, ZPATH |-> p, ZLANGUAGE |-> l] :
        t \in {NULL, StoreTitle}, a \in {NULL, StoreAuthor},
        p \in {NULL, StorePath}, l \in {NULL, StoreLanguage}}

\* records parseOPFMetadata and parseITunesMetadata build: title and author
\* are set only on a match, the other fields start as null
EpubMetadataRecords ==
    {[title |-> t, author |-> a, isbn |-> i, language |-> l, publisher |-> p,
      publicationDate |-> p, rights |-> p, subjects |-> s, cover |-> c] :
        t \in {UNDEFINED, EpubValue}, a \in {UNDEFINED, EpubValue},
        i \in {NULL, EpubValue}, l \in {NULL, EpubValue}, p \in {NULL, EpubValue},
        s \in {NULL, <<"s">>}, c \in {NULL, EpubCover}}

\* the fields of such a record
EpubFields ==
    {"title", "author", "isbn", "language", "publisher", "publicationDate",
     "rights", "subjects", "cover"}

NoMetadata == [f \in EpubFields |-> UNDEFINED]

\* what the import loop holds in `epubMetadata`
NotCalled == [called |-> FALSE, isNull |-> TRUE, metadata |-> NoMetadata]
ReturnedNull == [called |-> TRUE, isNull |-> TRUE, metadata |-> NoMetadata]
Returned(m) == [called |-> TRUE, isNull |-> FALSE, metadata |-> m]

EpubOutcomes == {ReturnedNull} \cup {Returned(m) : m \in EpubMetadataRecords}

\* coverImage of the item: absent, or the data URL showBookSelector builds
\* for a book that has a path
CoverImages(b) ==
    IF entry = "importSelectedBooks" /\ b.path # NULL
    THEN {UNDEFINED, DataJpegPrefix \o EpubCover}
    ELSE {UNDEFINED}

(* One iteration of importAllBooks, from `let enrichedBook = book` to the    *)
(* call of importBook                                                        *)
EnrichAllBooks ==
    /\ pc = "enrich"
    /\ entry = "importAllBooks"
    /\ IF WantsEpubMetadata(book)
       THEN \E r \in EpubOutcomes :
               /\ epubMetadata' = r
               /\ IF r.isNull
                  THEN enrichedBook' = book /\ aliased' = TRUE
                  ELSE /\ enrichedBook' = MergeEpubMetadata(book, r.metadata)
                       /\ aliased' = FALSE
       ELSE /\ epubMetadata' = NotCalled
            /\ enrichedBook' = book
            /\ aliased' = TRUE
    /\ pc' = "enriched"
    /\ UNCHANGED <<entry, settings, book, bookAtEntry, pipelineVars, chapterVars, batchVars, epubVars, laterVars>>

(* One iteration of importSelectedBooks, from `let enrichedBook = book` to   *)
(* the call of importBook: the assignments to enrichedBook.cover and         *)
(* enrichedBook.coverPath write the caller's object while no merge has       *)
(* replaced enrichedBook                                                     *)
EnrichSelectedBooks ==
    /\ pc = "enrich"
    /\ entry = "importSelectedBooks"
    /\ LET reused == ReuseModalCover(book)
       IN  \E r \in (IF Refetches(reused) THEN EpubOutcomes ELSE {NotCalled}) :
             LET merged == IF r.isNull THEN reused
                           ELSE MergeEpubMetadata(reused, r.metadata)
             IN  /\ epubMetadata' = r
                 /\ aliased' = r.isNull
                 /\ IF settings.saveCoverToAttachmentFolder
                    THEN \E cp \in SaveCoverFile(merged) :
                            /\ enrichedBook' = [merged EXCEPT !.coverPath = cp]
                            /\ book' = IF r.isNull
                                       THEN [merged EXCEPT !.coverPath = cp]
                                       ELSE reused
                    ELSE /\ enrichedBook' = merged
                         /\ book' = reused
    /\ pc' = "enriched"
    /\ UNCHANGED <<entry, settings, bookAtEntry, pipelineVars, chapterVars, batchVars, epubVars, laterVars>>

InitMerge ==
    /\ pc = "enrich"
    /\ entry \in {"importAllBooks", "importSelectedBooks"}
    /\ settings \in [includeCovers : BOOLEAN, includeExtendedFrontmatter : BOOLEAN,
                     includeExtendedInNote : BOOLEAN, saveCoverToAttachmentFolder : BOOLEAN]
    /\ \E row \in BookRows :
         \E ci \in CoverImages(MapBookResults(row)) :
            book = [MapBookResults(row) EXCEPT !.coverImage = ci]
    /\ bookAtEntry = book
    /\ epubMetadata = NotCalled
    /\ enrichedBook = book
    /\ aliased = FALSE
    /\ rows = <<>>
    /\ sortAnnotations = FALSE
    /\ annotations = <<>>
    /\ groupInput = <<>>
    /\ sortInput = <<>>
    /\ groupArg = <<>>
    /\ sortArg = <<>>
    /\ cfi = <<>>
    /\ numbers = <<>>
    /\ ChapterIdle
    /\ BatchIdle
    /\ EpubIdle
    /\ LaterIdle

NextMerge == EnrichAllBooks \/ EnrichSelectedBooks

SpecMerge == InitMerge /\ [][NextMerge]_vars

-----------------------------------------------------------------------------
(* Claims on the metadata enrichment (SpecMerge) *)

\* a merge happened: getEpubMetadata returned a record
Merged == pc = "enriched" /\ epubMetadata.called /\ ~epubMetadata.isNull

\* no enrichment: getEpubMetadata was not called or returned null
NotEnriched == pc = "enriched" /\ epubMetadata.isNull

\* a value that is present: not null, not undefined, not ''
Present(v) == v \notin {NULL, UNDEFINED, EmptyString}

\* the cover importSelectedBooks takes from the item's coverImage before it
\* asks the container: the data URL without its 23 characters of prefix
CoverBeforeMerge ==
    IF /\ entry = "importSelectedBooks"
       /\ Present(bookAtEntry.path)
       /\ settings.includeCovers
       /\ Present(bookAtEntry.coverImage)
    THEN SubSeq(bookAtEntry.coverImage, 24, Len(bookAtEntry.coverImage))
    ELSE bookAtEntry.cover

\* the store value of a field the merge falls back to
StoreValue(f) == IF f = "cover" THEN CoverBeforeMerge ELSE bookAtEntry[f]

\* C11 (as stated): for every optional field, title and author included, the
\* record handed to importBook has the container's value when that value is
\* present and the store's value only when it is absent.
C11_EnrichmentWinsEveryField ==
    Merged =>
        \A f \in EpubFields :
            enrichedBook[f] =
                IF Present(epubMetadata.metadata[f])
                THEN epubMetadata.metadata[f]
                ELSE StoreValue(f)

\* C11 (amended): for isbn, language, publisher, publicationDate, rights,
\* subjects and cover the record handed to importBook has the container's
\* value when present and the store's value otherwise; title and author are
\* always the store's, whatever the container says.
C11_EnrichmentWinsMergedFields ==
    Merged =>
        /\ \A f \in MergedFields :
              enrichedBook[f] =
                  IF Present(epubMetadata.metadata[f])
                  THEN epubMetadata.metadata[f]
                  ELSE StoreValue(f)
        /\ enrichedBook.title = bookAtEntry.title
        /\ enrichedBook.author = bookAtEntry.author

\* a merge where the container wins one field, the store keeps another, and
\* the container's title is not taken
C11_Witness ==
    /\ Merged
    /\ epubMetadata.metadata.isbn = EpubValue
    /\ enrichedBook.isbn = EpubValue
    /\ epubMetadata.metadata.language = NULL
    /\ bookAtEntry.language = StoreLanguage
    /\ enrichedBook.language = StoreLanguage
    /\ epubMetadata.metadata.title = EpubValue
    /\ enrichedBook.title = StoreTitle

\* C12 (as stated): the record handed to importBook has the store record's
\* assetId, and when there is no enrichment it equals the store record in
\* every field.
C12_BaseUnchangedWithoutEnrichment ==
    pc = "enriched" =>
        /\ enrichedBook.assetId = bookAtEntry.assetId
        /\ NotEnriched => enrichedBook = bookAtEntry

\* C12 (amended): the record handed to importBook has the store record's
\* assetId; without enrichment importAllBooks hands over the store record
\* itself, and importSelectedBooks hands over a record that differs from the
\* item at most in cover (the cover reused from the item's coverImage) and
\* coverPath (set when covers are saved to the attachment folder).
C12_AssetIdKeptAndBaseWithoutEnrichment ==
    pc = "enriched" =>
        /\ enrichedBook.assetId = bookAtEntry.assetId
        /\ NotEnriched /\ entry = "importAllBooks" => enrichedBook = bookAtEntry
        /\ NotEnriched /\ entry = "importSelectedBooks" =>
              /\ \A f \in BookFields \ {"cover", "coverPath"} :
                    enrichedBook[f] = bookAtEntry[f]
              /\ enrichedBook.cover = CoverBeforeMerge
              /\ enrichedBook.coverPath # UNDEFINED => settings.saveCoverToAttachmentFolder

\* getEpubMetadata was called for a book with a path and returned null, and
\* the store record is handed over as it was
C12_Witness ==
    /\ NotEnriched
    /\ epubMetadata.called
    /\ entry = "importAllBooks"
    /\ Present(bookAtEntry.path)
    /\ enrichedBook = bookAtEntry
    /\ enrichedBook.assetId = <<"A">>

\* C13: after the enrichment the object the caller supplied has every field
\* equal to its value before the import.
C13_CallerObjectUnchanged ==
    pc = "enriched" => book = bookAtEntry

-----------------------------------------------------------------------------
(* MarkdownGenerator.extractChapterFromCFI: the chapter label of a location  *)

LowerLetters == <<"a", "b", "c", "d", "e", "f", "g", "h", "i", "j", "k", "l", "m", "n", "o", "p", "q", "r", "s", "t", "u", "v", "w", "x", "y", "z">>
UpperLetters == <<"A", "B", "C", "D", "E", "F", "G", "H", "I", "J", "K", "L", "M", "N", "O", "P", "Q", "R", "S", "T", "U", "V", "W", "X", "Y", "Z">>

\* position of letter c in alphabet, 0 when it is not in it
LetterIndex(alphabet, c) ==
    IF \E k \in 1..26 : alphabet[k] = c
    THEN CHOOSE k \in 1..26 : alphabet[k] = c
    ELSE 0

\* String.prototype.toLowerCase
ToLowerCase(s) ==
    [k \in 1..Len(s) |->
        IF LetterIndex(UpperLetters, s[k]) = 0 THEN s[k]
        ELSE LowerLetters[LetterIndex(UpperLetters, s[k])]]

\* String.prototype.toUpperCase
ToUpperCase(s) ==
    [k \in 1..Len(s) |->
        IF LetterIndex(LowerLetters, s[k]) = 0 THEN s[k]
        ELSE UpperLetters[LetterIndex(LowerLetters, s[k])]]

\* String.prototype.includes
Includes(s, w) == \E k \in 1..(Len(s) - Len(w) + 1) : SubSeq(s, k, k + Len(w) - 1) = w

\* cfi.match(/\[([^\]]*)\]/): a capture that may be empty
BracketMatch_AllowEmpty(s, from) ==
    LET i == IndexOf(s, "[", from)
        j == IF i = 0 THEN 0 ELSE IndexOf(s, "]", i + 1)
    IN  IF i = 0 \/ j = 0 THEN [found |-> FALSE, chapterId |-> <<>>]
        ELSE [found |-> TRUE, chapterId |-> SubSeq(s, i + 1, j - 1)]

\* cfi.match(/\[([^\]]+)\]/): the text between the leftmost '[' that is
\* followed by at least one character other than ']' and the next ']'
RECURSIVE BracketMatch(_, _)
BracketMatch(s, from) ==
    LET i == IndexOf(s, "[", from)
        j == IF i = 0 THEN 0 ELSE IndexOf(s, "]", i + 1)
    IN  IF i = 0 \/ j = 0 THEN [found |-> FALSE, chapterId |-> <<>>]
        ELSE IF j = i + 1 THEN BracketMatch(s, i + 1)
        ELSE [found |-> TRUE, chapterId |-> SubSeq(s, i + 1, j - 1)]

Chapter_ == <<"c", "h", "a", "p", "t", "e", "r", "_">>

\* chapterId.match(/chapter_(\d+)/i): the digits of the leftmost 'chapter_'
\* that is followed by a digit, '' when there is none
RECURSIVE MatchChapterNumber(_, _)
MatchChapterNumber(chapterId, from) ==
    IF from + Len(Chapter_) > Len(chapterId) THEN <<>>
    ELSE IF /\ ToLowerCase(SubSeq(chapterId, from, from + Len(Chapter_) - 1)) = Chapter_
            /\ DigitRunLen(chapterId, from + Len(Chapter_)) > 0
         THEN SubSeq(chapterId, from + Len(Chapter_),
                     from + Len(Chapter_) + DigitRunLen(chapterId, from + Len(Chapter_)) - 1)
         ELSE MatchChapterNumber(chapterId, from + 1)

\* chapterId.match(/^c(\d+)/i): the digits after a leading 'c', '' when none
MatchLeadingC(chapterId) ==
    IF Len(chapterId) >= 2 /\ ToLowerCase(<<chapterId[1]>>) = <<"c">>
    THEN SubSeq(chapterId, 2, 1 + DigitRunLen(chapterId, 2))
    ELSE <<>>

LabelChapter == <<"C", "h", "a", "p", "t", "e", "r", " ">>
LabelPreface == <<"P", "r", "e", "f", "a", "c", "e">>
LabelPrefaceContinued == <<"P", "r", "e", "f", "a", "c", "e", " ", "(", "c", "o", "n", "t", "i", "n", "u", "e", "d", ")">>
LabelIntroduction == <<"I", "n", "t", "r", "o", "d", "u", "c", "t", "i", "o", "n">>
LabelAppendix == <<"A", "p", "p", "e", "n", "d", "i", "x">>
LabelTitlePage == <<"T", "i", "t", "l", "e", " ", "P", "a", "g", "e">>
LabelHowToBegin == <<"H", "o", "w", " ", "t", "o", " ", "B", "e", "g", "i", "n">>
LabelTextSection == <<"T", "e", "x", "t", " ", "S", "e", "c", "t", "i", "o", "n">>

\* chapterId.replace(/[_-]/g, ' ')
ReplaceSeparators(chapterId) ==
    [k \in 1..Len(chapterId) |-> IF chapterId[k] \in {"_", "-"} THEN " " ELSE chapterId[k]]

\* cleaned.charAt(0).toUpperCase() + cleaned.slice(1).toLowerCase()
Capitalize(cleaned) ==
    IF cleaned = <<>> THEN <<>>
    ELSE ToUpperCase(<<cleaned[1]>>) \o ToLowerCase(Tail(cleaned))

\* the chain of tests with preface and foreword tested first
ClassifyChapterId_PrefaceFirst(chapterId) ==
    LET lower == ToLowerCase(chapterId)
    IN  IF Includes(lower, <<"p", "r", "e", "f", "a", "c", "e">>) \/ Includes(lower, <<"f", "o", "r", "e", "w", "o", "r", "d">>)
        THEN LabelPreface
        ELSE IF Includes(lower, Chapter_) /\ MatchChapterNumber(chapterId, 1) # <<>>
        THEN LabelChapter \o MatchChapterNumber(chapterId, 1)
        ELSE IF MatchLeadingC(chapterId) # <<>>
        THEN LabelChapter \o MatchLeadingC(chapterId)
        ELSE IF Includes(lower, <<"i", "n", "t", "r", "o", "d", "u", "c", "t", "i", "o", "n">>) \/ Includes(lower, <<"i", "n", "t", "r", "o">>)
        THEN LabelIntroduction
        ELSE IF Includes(lower, <<"a", "p", "p", "e", "n", "d", "i", "x">>) THEN LabelAppendix
        ELSE IF Includes(lower, <<"t", "i", "t", "l", "e">>) THEN LabelTitlePage
        ELSE IF Includes(lower, <<"t", "e", "x", "t">>)
        THEN IF Includes(lower, <<"t", "e", "x", "t", "-", "2">>) THEN LabelPreface
             ELSE IF Includes(lower, <<"t", "e", "x", "t", "-", "3">>) THEN LabelPrefaceContinued
             ELSE IF Includes(lower, <<"t", "e", "x", "t", "-", "5">>) THEN LabelHowToBegin
             ELSE LabelTextSection
        ELSE Capitalize(ReplaceSeparators(chapterId))

\* the chain of tests on chapterId, in the order of the code; the first
\* test that succeeds returns
ClassifyChapterId(chapterId) ==
    LET lower == ToLowerCase(chapterId)
    IN  IF Includes(lower, Chapter_) /\ MatchChapterNumber(chapterId, 1) # <<>>
        THEN LabelChapter \o MatchChapterNumber(chapterId, 1)
        ELSE IF StartsWith(lower, <<"c">>) /\ MatchLeadingC(lower) # <<>>
                /\ MatchLeadingC(chapterId) # <<>>
        THEN LabelChapter \o MatchLeadingC(chapterId)
        ELSE IF Includes(lower, <<"p", "r", "e", "f", "a", "c", "e">>) \/ Includes(lower, <<"f", "o", "r", "e", "w", "o", "r", "d">>)
        THEN LabelPreface
        ELSE IF Includes(lower, <<"i", "n", "t", "r", "o", "d", "u", "c", "t", "i", "o", "n">>) \/ Includes(lower, <<"i", "n", "t", "r", "o">>)
        THEN LabelIntroduction
        ELSE IF Includes(lower, <<"a", "p", "p", "e", "n", "d", "i", "x">>) THEN LabelAppendix
        ELSE IF Includes(lower, <<"t", "i", "t", "l", "e">>) THEN LabelTitlePage
        ELSE IF Includes(lower, <<"t", "e", "x", "t">>)
        THEN IF Includes(lower, <<"t", "e", "x", "t", "-", "2">>) THEN LabelPreface
             ELSE IF Includes(lower, <<"t", "e", "x", "t", "-", "3">>) THEN LabelPrefaceContinued
             ELSE IF Includes(lower, <<"t", "e", "x", "t", "-", "5">>) THEN LabelHowToBegin
             ELSE LabelTextSection
        ELSE Capitalize(ReplaceSeparators(chapterId))

\* extractChapterFromCFI: null for '' and for a string without a match
ExtractChapterFromCFI(s) ==
    IF s = EmptyString THEN NULL
    ELSE IF ~BracketMatch(s, 1).found THEN NULL
    ELSE ClassifyChapterId(BracketMatch(s, 1).chapterId)

(* Inputs of extractChapterFromCFI *)

MaxTokens == 2

\* pieces of chapter ids
ChapterTokens ==
    {<<"c", "h", "a", "p", "t", "e", "r", "_">>,
     <<"C", "h", "a", "p", "t", "e", "r", "_", "4">>,
     <<"c">>,
     <<"C", "3">>,
     <<"4">>,
     <<"p", "r", "e", "f", "a", "c", "e">>,
     <<"F", "o", "r", "e", "w", "o", "r", "d">>,
     <<"i", "n", "t", "r", "o">>,
     <<"a", "p", "p", "e", "n", "d", "i", "x">>,
     <<"T", "i", "t", "l", "e">>,
     <<"t", "e", "x", "t">>,
     <<"t", "e", "x", "t", "-", "2">>,
     <<"t", "e", "x", "t", "-", "3">>,
     <<"T", "e", "x", "t", "-", "5">>,
     <<"x", "-", "Y">>,
     <<"[">>}

RECURSIVE ConcatsUpTo(_, _)
ConcatsUpTo(tokens, n) ==
    IF n = 0 THEN {<<>>}
    ELSE LET shorter == ConcatsUpTo(tokens, n - 1)
         IN  shorter \cup {s \o t : s \in shorter, t \in tokens}

ChapterIds == ConcatsUpTo(ChapterTokens, MaxTokens)

\* epubcfi(/6/12[id]!/4/10/1,:0,:4), the same with an empty [] before the
\* id, with a second segment after it, without the closing bracket, and the
\* bare id without brackets
ChapterCfis ==
    UNION {{<<"e", "p", "u", "b", "c", "f", "i", "(", "/", "6", "/", "1", "2", "[">> \o id \o <<"]", "!", "/", "4", "/", "1", "0", "/", "1", ",", ":", "0", ",", ":", "4", ")">>,
            <<"e", "p", "u", "b", "c", "f", "i", "(", "/", "6", "[", "]", "/", "1", "2", "[">> \o id \o <<"]", "!", "/", "4", ")">>,
            <<"e", "p", "u", "b", "c", "f", "i", "(", "/", "6", "/", "1", "2", "[">> \o id \o <<"]", "!", "/", "4", "[", "p", "r", "e", "f", "a", "c", "e", "]", ")">>,
            <<"e", "p", "u", "b", "c", "f", "i", "(", "/", "6", "/", "1", "2", "[">> \o id,
            id} : id \in ChapterIds}

InitChapter ==
    /\ pc = "extract"
    /\ cfi \in ChapterCfis
    /\ chapter = NULL
    /\ chapterAgain = NULL
    /\ numbers = <<>>
    /\ rows = <<>>
    /\ sortAnnotations = FALSE
    /\ annotations = <<>>
    /\ groupInput = <<>>
    /\ sortInput = <<>>
    /\ groupArg = <<>>
    /\ sortArg = <<>>
    /\ MergeIdle
    /\ BatchIdle
    /\ EpubIdle
    /\ LaterIdle

\* the call of generateMarkdown for an annotation that starts a chapter
CallExtractChapterFromCFI ==
    /\ pc = "extract"
    /\ chapter' = ExtractChapterFromCFI(cfi)
    /\ pc' = "extracted"
    /\ UNCHANGED <<chapterAgain, pipelineVars, mergeVars, batchVars, epubVars, laterVars>>

\* the call for the next annotation at the same location
CallExtractChapterFromCFIAgain ==
    /\ pc = "extracted"
    /\ chapterAgain' = ExtractChapterFromCFI(cfi)
    /\ pc' = "extractedAgain"
    /\ UNCHANGED <<chapter, pipelineVars, mergeVars, batchVars, epubVars, laterVars>>

NextChapter == CallExtractChapterFromCFI \/ CallExtractChapterFromCFIAgain

SpecChapter == InitChapter /\ [][NextChapter]_vars

-----------------------------------------------------------------------------
(* Claims on the chapter label (SpecChapter) *)

\* position i opens a bracketed segment of s that closes at j: '[' at i, ']'
\* at j, and at least one character, none of them ']', in between
SegmentAt(s, i, j) ==
    /\ s[i] = "["
    /\ s[j] = "]"
    /\ j > i + 1
    /\ \A k \in (i + 1)..(j - 1) : s[k] # "]"

HasSegment(s) == \E i \in 1..Len(s) : \E j \in 1..Len(s) : SegmentAt(s, i, j)

\* the content of the first bracketed segment
FirstSegment(s) ==
    LET i == CHOOSE a \in 1..Len(s) :
                 /\ \E j \in 1..Len(s) : SegmentAt(s, a, j)
                 /\ \A b \in 1..(a - 1) : ~\E j \in 1..Len(s) : SegmentAt(s, b, j)
        j == CHOOSE c \in 1..Len(s) : SegmentAt(s, i, c)
    IN  SubSeq(s, i + 1, j - 1)

\* the maximal run of digits of id that starts at position p
DigitsAt(id, p) ==
    LET q == CHOOSE e \in p..Len(id) :
                 /\ \A k \in p..e : id[k] \in DigitChars
                 /\ e = Len(id) \/ id[e + 1] \notin DigitChars
    IN  SubSeq(id, p, q)

\* 'chapter_' in any case starts at position k of id and a digit follows
ChapterNumberAt(id, k) ==
    /\ k + 8 <= Len(id)
    /\ ToLowerCase(SubSeq(id, k, k + 7)) = Chapter_
    /\ id[k + 8] \in DigitChars

\* whether rule r applies to the content id
RuleMatches(r, id) ==
    LET lower == ToLowerCase(id)
    IN  CASE r = 1 -> \E k \in 1..Len(id) : ChapterNumberAt(id, k)
          [] r = 2 -> Len(id) >= 2 /\ lower[1] = "c" /\ id[2] \in DigitChars
          [] r = 3 -> Includes(lower, <<"p", "r", "e", "f", "a", "c", "e">>) \/ Includes(lower, <<"f", "o", "r", "e", "w", "o", "r", "d">>)
          [] r = 4 -> Includes(lower, <<"i", "n", "t", "r", "o", "d", "u", "c", "t", "i", "o", "n">>) \/ Includes(lower, <<"i", "n", "t", "r", "o">>)
          [] r = 5 -> Includes(lower, <<"a", "p", "p", "e", "n", "d", "i", "x">>)
          [] r = 6 -> Includes(lower, <<"t", "i", "t", "l", "e">>)
          [] r = 7 -> Includes(lower, <<"t", "e", "x", "t">>)
          [] r = 8 -> TRUE

\* the label rule r gives to the content id
RuleLabel(r, id) ==
    LET lower == ToLowerCase(id)
    IN  CASE r = 1 -> <<"C", "h", "a", "p", "t", "e", "r", " ">> \o
                      DigitsAt(id, 8 + CHOOSE k \in 1..Len(id) :
                                         /\ ChapterNumberAt(id, k)
                                         /\ \A b \in 1..(k - 1) : ~ChapterNumberAt(id, b))
          [] r = 2 -> <<"C", "h", "a", "p", "t", "e", "r", " ">> \o DigitsAt(id, 2)
          [] r = 3 -> <<"P", "r", "e", "f", "a", "c", "e">>
          [] r = 4 -> <<"I", "n", "t", "r", "o", "d", "u", "c", "t", "i", "o", "n">>
          [] r = 5 -> <<"A", "p", "p", "e", "n", "d", "i", "x">>
          [] r = 6 -> <<"T", "i", "t", "l", "e", " ", "P", "a", "g", "e">>
          [] r = 7 -> IF Includes(lower, <<"t", "e", "x", "t", "-", "2">>) THEN <<"P", "r", "e", "f", "a", "c", "e">>
                      ELSE IF Includes(lower, <<"t", "e", "x", "t", "-", "3">>) THEN <<"P", "r", "e", "f", "a", "c", "e", " ", "(", "c", "o", "n", "t", "i", "n", "u", "e", "d", ")">>
                      ELSE IF Includes(lower, <<"t", "e", "x", "t", "-", "5">>) THEN <<"H", "o", "w", " ", "t", "o", " ", "B", "e", "g", "i", "n">>
                      ELSE <<"T", "e", "x", "t", " ", "S", "e", "c", "t", "i", "o", "n">>
          [] r = 8 -> [k \in 1..Len(id) |->
                         LET ch == IF id[k] \in {"_", "-"} THEN " " ELSE id[k]
                         IN  IF k = 1 THEN ToUpperCase(<<ch>>)[1] ELSE ToLowerCase(<<ch>>)[1]]

LowestRule(id) ==
    CHOOSE r \in 1..8 : RuleMatches(r, id) /\ \A q \in 1..(r - 1) : ~RuleMatches(q, id)

Extracted == pc \in {"extracted", "extractedAgain"}

\* C14: the label of a location is the label of the lowest-numbered rule
\* that matches the content of its first bracketed segment (a '[', at least
\* one character other than ']', and a ']'), compared without regard to case.
C14_LowestMatchingRule ==
    Extracted /\ HasSegment(cfi) =>
        chapter = RuleLabel(LowestRule(FirstSegment(cfi)), FirstSegment(cfi))

\* a content that rules 1 and 3 both match is labelled by rule 1
C14_Witness ==
    /\ pc = "extracted"
    /\ cfi = <<"e", "p", "u", "b", "c", "f", "i", "(", "/", "6", "/", "1", "2", "[", "p", "r", "e", "f", "a", "c", "e", "C", "h", "a", "p", "t", "e", "r", "_", "4", "]", "!", "/", "4", "/", "1", "0", "/", "1", ",", ":", "0", ",", ":", "4", ")">>
    /\ RuleMatches(1, FirstSegment(cfi))
    /\ RuleMatches(3, FirstSegment(cfi))
    /\ chapter = <<"C", "h", "a", "p", "t", "e", "r", " ", "4">>

-----------------------------------------------------------------------------
(* Claim on the list handed to rendering (SpecImport) *)

\* the coalesced list: what getAnnotationsForBook returned for the rows
Coalesced == GroupConsecutiveNullLocationAnnotations(MappedAndFiltered(rows))

\* a record whose text has a character that is not white space
NonEmptyText(a) ==
    \E k \in 1..Len(a.selectedText) : a.selectedText[k] \notin WhitespaceChars

\* s and t hold the same records the same number of times
IsPermutation(s, t) ==
    /\ Len(s) = Len(t)
    /\ \A k \in 1..Len(t) :
          Cardinality({i \in 1..Len(s) : s[i] = t[k]}) =
              Cardinality({i \in 1..Len(t) : t[i] = t[k]})

\* C16: with sorting off the list handed to rendering is the coalesced list
\* without its empty-text records, in coalesced order; with sorting on it is
\* a permutation of those records.
C16_OrderKeptUnlessSorting ==
    pc = "reconciled" =>
        /\ ~sortAnnotations => annotations = SelectSeq(Coalesced, NonEmptyText)
        /\ sortAnnotations => IsPermutation(annotations, SelectSeq(Coalesced, NonEmptyText))

\* sorting is off and the list is handed over in fetch order although its
\* second record has the smaller key
C16_Witness ==
    /\ pc = "reconciled"
    /\ ~sortAnnotations
    /\ Len(annotations) >= 2
    /\ KeyLess(KeyOf(annotations[2]), KeyOf(annotations[1]))
    /\ annotations = Coalesced

-----------------------------------------------------------------------------
(* The import loop over the books (importAllBooks, importSelectedBooks) and  *)
(* importBook, which writes one note. The vault holds, for the k-th book,    *)
(* no note ("absent"), a note without last-import-hash ("unhashed"), a note  *)
(* whose last-import-hash differs from the hash of the newly rendered body   *)
(* ("stale"), or the newly rendered note ("current"). Every book has the     *)
(* same author and a note path of its own, the output folder is set          *)
(* ('Books', the default), and covers are not saved. SpecTwice runs the      *)
(* command a second time on the same, unchanged books.                       *)

MaxBooks == 2

\* the values of AppleBooksImporterSettings.overwriteExisting; the toggle of
\* the settings tab stores true and false, which the comparisons of
\* importBook treat as 'true' and 'false'
OverwriteValues == {"true", "false", "smart"}

NoteStates == {"absent", "unhashed", "stale", "current"}

\* the author page: missing, written by the user or an earlier import, or
\* created by this import
AuthorPageStates == {"absent", "existing", "created"}

\* a call that returned, and a call that threw
Ok(op) == [op |-> op, ok |-> TRUE]
Failed(op) == [op |-> op, ok |-> FALSE]

\* NoteRenderer.renderFull(book, newNoteBody, newContentHash, settings): the
\* note whose frontmatter carries newContentHash as last-import-hash
RenderFull == "current"

\* createAuthorPageIfNeeded: the authors folder and the page are created
\* when missing; an error at any call is logged and swallowed
CreateAuthorPageIfNeeded(v) ==
    IF ~settings.createAuthorPages THEN {[vault |-> v, calls |-> <<>>]}
    ELSE LET withFolder == [v EXCEPT !.authorsFolder = TRUE]
             folderCalls == IF v.authorsFolder THEN <<>> ELSE <<Ok("createAuthorsFolder")>>
         IN  (IF v.authorsFolder THEN {}
              ELSE {[vault |-> v, calls |-> <<Failed("createAuthorsFolder")>>]})
             \cup
             (IF v.authorPage # "absent"
              THEN {[vault |-> withFolder, calls |-> folderCalls]}
              ELSE {[vault |-> withFolder,
                     calls |-> folderCalls \o <<Failed("createAuthorPage")>>],
                    [vault |-> [withFolder EXCEPT !.authorPage = "created"],
                     calls |-> folderCalls \o <<Ok("createAuthorPage")>>]})

\* variant: 'smart' leaves every note with a last-import-hash alone
LeavesExisting_AnyHash(note) ==
    \/ settings.overwriteExisting = "never"
    \/ settings.overwriteExisting = "smart" /\ note \in {"stale", "current"}

\* the two early returns of importBook for a note that exists: the setting
\* is 'never', or it is 'smart' and the note's last-import-hash is there and
\* equals the hash of the newly rendered body
LeavesExisting(note) ==
    \/ settings.overwriteExisting = "never"
    \/ settings.overwriteExisting = "smart" /\ note = "current"

\* variant: the note is created before the output folder is seen to
ImportBook_FolderAfterNote(v, k) ==
    LET fileExists == v.notes[k] # "absent"
        write == IF fileExists THEN "modify" ELSE "create"
        folderCalls == IF v.folder THEN <<>> ELSE <<Ok("createFolder")>>
    IN  {[threw |-> FALSE,
          vault |-> [v EXCEPT !.folder = TRUE, !.notes[k] = RenderFull],
          wrote |-> write,
          calls |-> <<Ok("render"), Ok(write)>> \o folderCalls]}

\* importBook for the k-th book: the ways the call can end. It throws when
\* rendering, hashing or a vault call throws (the output folder may have
\* been created by then); it returns without writing when the note exists
\* and the setting is 'never', or 'smart' with an unchanged hash; otherwise
\* it modifies the existing note or creates the missing one, then sees to
\* the author page.
ImportBook(v, k) ==
    LET fileExists == v.notes[k] # "absent"
        withFolder == [v EXCEPT !.folder = TRUE]
        folderCalls == IF v.folder THEN <<>> ELSE <<Ok("createFolder")>>
        readCalls ==
            IF fileExists /\ settings.overwriteExisting = "smart"
            THEN <<Ok("read")>> ELSE <<>>
        skipsExisting == fileExists /\ LeavesExisting(v.notes[k])
        beforeWrite == <<Ok("render")>> \o folderCalls \o readCalls
        write == IF fileExists THEN "modify" ELSE "create"
        written == [withFolder EXCEPT !.notes[k] = RenderFull]
        Thrown(w, c) == [threw |-> TRUE, vault |-> w, wrote |-> "none", calls |-> c]
    IN  {Thrown(v, <<Failed("render")>>),
         Thrown(withFolder, <<Ok("render")>> \o folderCalls \o <<Failed("exists")>>)}
        \cup
        (IF v.folder THEN {} ELSE {Thrown(v, <<Ok("render"), Failed("createFolder")>>)})
        \cup
        (IF skipsExisting
         THEN {[threw |-> FALSE, vault |-> withFolder, wrote |-> "none",
                calls |-> beforeWrite]}
         ELSE {Thrown(withFolder, beforeWrite \o <<Failed(write)>>)}
              \cup
              {[threw |-> FALSE, vault |-> a.vault, wrote |-> write,
                calls |-> beforeWrite \o <<Ok(write)>> \o a.calls] :
                    a \in CreateAuthorPageIfNeeded(written)})

\* variant: the catch block does not count the book
CountBook_FailureUncounted(result) ==
    IF result = "imported" THEN <<importedCount + 1, skippedCount>>
    ELSE IF result = "failed" THEN <<importedCount, skippedCount>>
    ELSE <<importedCount, skippedCount + 1>>

\* importedCount++ after importBook returned; skippedCount++ before each
\* `continue` ("skipped") and in the catch block ("failed")
CountBook(result) ==
    IF result = "imported" THEN <<importedCount + 1, skippedCount>>
    ELSE <<importedCount, skippedCount + 1>>

\* the calls of one iteration, each with the book it was made for
CallsOfBook(made) == [c \in 1..Len(made) |-> [op |-> made[c].op, ok |-> made[c].ok, book |-> bookIndex]]

\* the end of an iteration: count the book and go to the next one
EndIteration(result, v, wrote, fetched, made) ==
    /\ importedCount' = CountBook(result)[1]
    /\ skippedCount' = CountBook(result)[2]
    /\ vault' = v
    /\ log' = Append(log, [result |-> result, wrote |-> wrote, fetched |-> fetched])
    /\ calls' = calls \o CallsOfBook(made)
    /\ bookIndex' = bookIndex + 1
    /\ UNCHANGED <<pc, entry, settings, books, vaultAtStart, run, firstLog>>
    /\ UNCHANGED <<book, bookAtEntry, epubMetadata, enrichedBook, aliased>>
    /\ UNCHANGED <<pipelineVars, chapterVars, epubVars, laterVars>>

\* what getAnnotationsForBook and the filter leave for the loop
FetchOutcomes == {"throws", "empty", "some"}

\* from the fetch of the annotations to the end of the iteration
FetchAndImport ==
    \E fetch \in FetchOutcomes :
        CASE fetch = "throws" ->
                EndIteration("failed", vault, "none", fetch, <<Failed("fetch")>>)
          [] fetch = "empty" ->
                EndIteration("skipped", vault, "none", fetch, <<Ok("fetch")>>)
          [] fetch = "some" ->
                \E o \in ImportBook(vault, bookIndex) :
                    EndIteration(IF o.threw THEN "failed" ELSE "imported", o.vault, o.wrote,
                                 fetch, <<Ok("fetch")>> \o o.calls)

\* one iteration of the loop of importAllBooks
ImportAllBooksIteration ==
    /\ pc = "loop"
    /\ entry = "importAllBooks"
    /\ bookIndex <= Len(books)
    /\ IF ~books[bookIndex].found
       THEN EndIteration("skipped", vault, "none", "notFound", <<>>)
       ELSE FetchAndImport

\* one iteration of the loop of importSelectedBooks
ImportSelectedBooksIteration ==
    /\ pc = "loop"
    /\ entry = "importSelectedBooks"
    /\ bookIndex <= Len(books)
    /\ FetchAndImport

\* the loop is over: the final Notice with both counts
ShowResult ==
    /\ pc = "loop"
    /\ bookIndex > Len(books)
    /\ pc' = "done"
    /\ UNCHANGED <<pipelineVars, mergeVars, chapterVars, batchVars, epubVars, laterVars>>

\* the user runs the same command again; the books have not changed
RunAgain ==
    /\ pc = "done"
    /\ run = 1
    /\ run' = 2
    /\ firstLog' = log
    /\ log' = <<>>
    /\ calls' = <<>>
    /\ vaultAtStart' = vault
    /\ bookIndex' = 1
    /\ importedCount' = 0
    /\ skippedCount' = 0
    /\ pc' = "loop"
    /\ UNCHANGED <<books, vault>>
    /\ UNCHANGED <<pipelineVars, mergeVars, chapterVars, epubVars, laterVars>>

\* a command starts on at most `most` books
InitImportRun(most) ==
    /\ pc = "loop"
    /\ entry \in {"importAllBooks", "importSelectedBooks"}
    /\ settings \in [overwriteExisting : OverwriteValues, createAuthorPages : BOOLEAN]
    /\ \E n \in 0..most :
          /\ entry = "importAllBooks" => n > 0
          /\ books \in [1..n -> [found : IF entry = "importAllBooks" THEN BOOLEAN ELSE {TRUE}]]
          /\ \E notes \in [1..n -> NoteStates], page \in {"absent", "existing"} :
                vault = [notes |-> notes,
                         folder |-> page = "existing" \/ \E k \in 1..n : notes[k] # "absent",
                         authorsFolder |-> page = "existing",
                         authorPage |-> page]
    /\ vaultAtStart = vault
    /\ bookIndex = 1
    /\ importedCount = 0
    /\ skippedCount = 0
    /\ log = <<>>
    /\ calls = <<>>
    /\ run = 1
    /\ firstLog = <<>>
    /\ book = <<>>
    /\ bookAtEntry = <<>>
    /\ epubMetadata = <<>>
    /\ enrichedBook = <<>>
    /\ aliased = FALSE
    /\ rows = <<>>
    /\ sortAnnotations = FALSE
    /\ annotations = <<>>
    /\ groupInput = <<>>
    /\ sortInput = <<>>
    /\ groupArg = <<>>
    /\ sortArg = <<>>
    /\ cfi = <<>>
    /\ numbers = <<>>
    /\ ChapterIdle
    /\ EpubIdle
    /\ LaterIdle

InitBatch == InitImportRun(MaxBooks)

NextBatch == ImportAllBooksIteration \/ ImportSelectedBooksIteration \/ ShowResult

SpecBatch == InitBatch /\ [][NextBatch]_vars

\* the command run twice in a row on the same books
MaxBooksTwice == 1

InitTwice == InitImportRun(MaxBooksTwice)

NextTwice ==
    ImportAllBooksIteration \/ ImportSelectedBooksIteration \/ ShowResult \/ RunAgain

SpecTwice == InitTwice /\ [][NextTwice]_vars

-----------------------------------------------------------------------------
(* Claims on the import loop (SpecBatch) *)

CountOf(result) == Cardinality({k \in 1..Len(log) : log[k].result = result})

\* C17: a book that fails is counted as skipped and the loop goes on; each
\* iterated book is counted exactly once, so importedCount + skippedCount is
\* the number of books iterated so far and, at the end, the number of books.
C17_EveryBookCountedOnce ==
    pc \in {"loop", "done"} =>
        /\ Len(log) = bookIndex - 1
        /\ importedCount = CountOf("imported")
        /\ skippedCount = CountOf("skipped") + CountOf("failed")
        /\ importedCount + skippedCount = Len(log)
        /\ pc = "done" => importedCount + skippedCount = Len(books)

\* the first book failed and the second one was imported all the same
C17_Witness ==
    /\ pc = "done"
    /\ Len(books) = 2
    /\ log[1].result = "failed"
    /\ log[2].result = "imported"
    /\ importedCount = 1
    /\ skippedCount = 1

\* C18: with the overwrite setting disabled a note that existed before the
\* import is left as it was; with the setting enabled an existing note whose
\* book was imported has been updated through modify to the new content.
C18_OverwriteSettingHonoured ==
    pc \in {"loop", "done"} =>
        \A k \in 1..Len(log) :
            vaultAtStart.notes[k] # "absent" =>
                /\ settings.overwriteExisting = "false" =>
                      vault.notes[k] = vaultAtStart.notes[k]
                /\ settings.overwriteExisting = "true" /\ log[k].result = "imported" =>
                      log[k].wrote = "modify" /\ vault.notes[k] = "current"

-----------------------------------------------------------------------------
(* AppleBooksDatabase.getEpubMetadata and readEpubDirectoryMetadata: the     *)
(* container reader. A call ends by returning null, returning a metadata     *)
(* record, or throwing; a throw inside a try block is turned into what the   *)
(* catch block does.                                                         *)

ReturnsNull == [threw |-> FALSE, isNull |-> TRUE, metadata |-> NoMetadata]
ReturnsMetadata(m) == [threw |-> FALSE, isNull |-> FALSE, metadata |-> m]
Throws == [threw |-> TRUE, isNull |-> TRUE, metadata |-> NoMetadata]

\* try { body } catch { return null }
CatchReturnNull(body) == IF body.threw THEN ReturnsNull ELSE body

\* parseOPFMetadata on the content of the OPF file: the fields start as null,
\* title and author are set only when their element is found
ParseOPFMetadata(opfContent) ==
    [f \in EpubFields |->
        IF f \in DOMAIN opfContent THEN opfContent[f]
        ELSE IF f \in {"title", "author"} THEN UNDEFINED
        ELSE NULL]

\* parseITunesMetadata on the content of iTunesMetadata.plist: the record
\* has no rights and no subjects
ParseITunesMetadata(iTunesContent) ==
    [f \in EpubFields |->
        IF f \in DOMAIN iTunesContent THEN iTunesContent[f]
        ELSE IF f \in {"title", "author", "rights", "subjects"} THEN UNDEFINED
        ELSE NULL]

\* variant: a cover that cannot be read ends the reading of the container
ReadCover_Fatal(metadata, files) ==
    CASE files.cover = "none" -> ReturnsMetadata(metadata)
      [] files.cover = "readable" -> ReturnsMetadata([metadata EXCEPT !.cover = EpubCover])
      [] files.cover = "unreadable" -> Throws

\* the inner try of readEpubDirectoryMetadata: findCoverImage returns a path
\* or null; the file at the path is read into metadata.cover; a failure to
\* read it is logged and the metadata is returned without cover
ReadCover(metadata, files) ==
    CASE files.cover = "none" -> ReturnsMetadata(metadata)
      [] files.cover = "readable" -> ReturnsMetadata([metadata EXCEPT !.cover = EpubCover])
      [] files.cover = "unreadable" -> ReturnsMetadata(metadata)

\* readEpubDirectoryMetadata
ReadEpubDirectoryMetadata(files) ==
    CatchReturnNull(
        IF files.container = "missing"
        THEN CASE files.iTunes = "missing" -> ReturnsNull
               [] files.iTunes = "unreadable" -> ReturnsNull
               [] files.iTunes = "readable" ->
                      ReturnsMetadata(ParseITunesMetadata(files.iTunesContent))
        ELSE IF files.container = "unreadable" THEN ReturnsNull
        ELSE IF files.container = "noRootfile" THEN ReturnsNull
        ELSE IF files.opf = "missing" THEN ReturnsNull
        ELSE IF files.opf = "unreadable" THEN ReturnsNull
        ELSE ReadCover(ParseOPFMetadata(files.opfContent), files))

\* variant: statSync is called without asking existsSync first
GetEpubMetadata_NoExistsCheck(files) ==
    IF files.epubPath = EmptyString THEN [result |-> ReturnsNull, statCalled |-> FALSE]
    ELSE [result |-> IF files.kind = "directory"
                     THEN ReadEpubDirectoryMetadata(files)
                     ELSE ReturnsNull,
          statCalled |-> TRUE]

\* getEpubMetadata: the result and whether statSync was called
GetEpubMetadata(files) ==
    IF files.epubPath = EmptyString THEN [result |-> ReturnsNull, statCalled |-> FALSE]
    ELSE IF files.kind = "missing" THEN [result |-> ReturnsNull, statCalled |-> FALSE]
    ELSE [result |->
              CatchReturnNull(
                  IF files.kind = "statThrows" THEN Throws
                  ELSE IF files.kind = "directory"
                  THEN LET metadata == ReadEpubDirectoryMetadata(files)
                       IN  IF metadata.threw THEN Throws
                           ELSE IF metadata.isNull THEN ReturnsNull
                           ELSE metadata
                  ELSE ReturnsNull),
          statCalled |-> TRUE]

(* Inputs of getEpubMetadata *)

\* what is at the path: nothing, a directory, a file, something else, or an
\* entry that vanishes between existsSync and statSync
PathKinds == {"missing", "directory", "file", "other", "statThrows"}

\* META-INF/container.xml: absent, unreadable, without a full-path
\* attribute, or naming the OPF file
ContainerStates == {"missing", "unreadable", "noRootfile", "ok"}

FileStates == {"missing", "unreadable", "readable"}

CoverStates == {"none", "readable", "unreadable"}

\* <package><metadata>This is not valid XML: an OPF file whose metadata
\* element is not closed and holds text but no Dublin Core element
MalformedOpf == [text |-> <<"T", "h", "i", "s">>]

\* the elements found in the OPF file
OpfContents ==
    {[isbn |-> EpubValue], [title |-> EpubValue, language |-> EpubValue], MalformedOpf}

\* the keys found in iTunesMetadata.plist
ITunesContents == {[title |-> EpubValue, author |-> EpubValue, publisher |-> EpubValue]}

EpubFileSystems ==
    [epubPath : {EmptyString, StorePath}, kind : PathKinds,
     container : ContainerStates, iTunes : FileStates, iTunesContent : ITunesContents,
     opf : FileStates, opfContent : OpfContents, cover : CoverStates]

InitEpub ==
    /\ pc = "epub"
    /\ epubFiles \in EpubFileSystems
    /\ epubResult = [result |-> ReturnsNull, statCalled |-> FALSE]
    /\ rows = <<>>
    /\ sortAnnotations = FALSE
    /\ annotations = <<>>
    /\ groupInput = <<>>
    /\ sortInput = <<>>
    /\ groupArg = <<>>
    /\ sortArg = <<>>
    /\ cfi = <<>>
    /\ numbers = <<>>
    /\ MergeIdle
    /\ ChapterIdle
    /\ BatchIdle
    /\ LaterIdle

\* the call of getEpubMetadata(book.path) of the import loop
CallGetEpubMetadata ==
    /\ pc = "epub"
    /\ epubResult' = GetEpubMetadata(epubFiles)
    /\ pc' = "returned"
    /\ UNCHANGED <<epubFiles, pipelineVars, mergeVars, chapterVars, batchVars, laterVars>>

NextEpub == CallGetEpubMetadata

SpecEpub == InitEpub /\ [][NextEpub]_vars

-----------------------------------------------------------------------------
(* Claims on the container reader (SpecEpub) *)

\* the path is a directory whose container.xml names an OPF file
NamesOpf ==
    /\ epubFiles.epubPath # EmptyString
    /\ epubFiles.kind = "directory"
    /\ epubFiles.container = "ok"

\* C19: getEpubMetadata never throws, and it returns null when the path is
\* empty, when nothing exists at the path (statSync is then not called),
\* when the path is a file, when neither container.xml nor
\* iTunesMetadata.plist exists, when the OPF file named by container.xml
\* does not exist, and when reading the OPF file raises an error.
C19_NullAndNeverThrows ==
    pc = "returned" =>
        /\ ~epubResult.result.threw
        /\ epubFiles.epubPath = EmptyString => epubResult.result.isNull
        /\ epubFiles.kind = "missing" =>
              epubResult.result.isNull /\ ~epubResult.statCalled
        /\ epubFiles.kind = "file" => epubResult.result.isNull
        /\ epubFiles.container = "missing" /\ epubFiles.iTunes = "missing" =>
              epubResult.result.isNull
        /\ NamesOpf /\ epubFiles.opf = "missing" => epubResult.result.isNull
        /\ NamesOpf /\ epubFiles.opf = "unreadable" => epubResult.result.isNull

\* nothing exists at a non-empty path: null, and statSync was not called
C19_Witness ==
    /\ pc = "returned"
    /\ epubFiles.epubPath = StorePath
    /\ epubFiles.kind = "missing"
    /\ epubResult.result.isNull
    /\ ~epubResult.result.threw
    /\ ~epubResult.statCalled

\* C20: when the OPF file parses and no cover file is found, or the cover
\* file cannot be read, getEpubMetadata returns the parsed record, title and
\* the other fields as parsed, with cover null.
C20_CoverFailureKeepsMetadata ==
    pc = "returned" /\ NamesOpf /\ epubFiles.opf = "readable"
        /\ epubFiles.cover \in {"none", "unreadable"} =>
            /\ ~epubResult.result.threw
            /\ ~epubResult.result.isNull
            /\ epubResult.result.metadata.cover = NULL
            /\ \A f \in EpubFields \cap DOMAIN epubFiles.opfContent :
                  epubResult.result.metadata[f] = epubFiles.opfContent[f]
            /\ \A f \in EpubFields \ (DOMAIN epubFiles.opfContent \cup {"title", "author"}) :
                  epubResult.result.metadata[f] = NULL

\* the cover file is there but cannot be read: the title is returned
C20_Witness ==
    /\ pc = "returned"
    /\ NamesOpf
    /\ epubFiles.opf = "readable"
    /\ epubFiles.cover = "unreadable"
    /\ "title" \in DOMAIN epubFiles.opfContent
    /\ ~epubResult.result.isNull
    /\ epubResult.result.metadata.title = EpubValue
    /\ epubResult.result.metadata.cover = NULL

-----------------------------------------------------------------------------
(* Claim on the order of the pipeline steps (SpecImport) *)

\* the rows as records, none left out
MappedRows(rs) == [k \in 1..Len(rs) |-> MapRow(rs[k])]

\* the steps in the specified order on the rows rs: coalesce, discard the
\* records whose trimmed text is empty, sort when the setting is on
SpecifiedOrder(rs) ==
    LET coalesced == GroupConsecutiveNullLocationAnnotations(MappedRows(rs))
        kept      == SelectSeq(coalesced, NonEmptyText)
    IN  IF sortAnnotations THEN SortAnnotationsByCFI(kept) ELSE kept

\* a row whose text has a character that is not white space
RowHasText(row) ==
    /\ row.ZANNOTATIONSELECTEDTEXT # NULL
    /\ \E k \in 1..Len(row.ZANNOTATIONSELECTEDTEXT) :
          row.ZANNOTATIONSELECTEDTEXT[k] \notin WhitespaceChars

\* the loop is past the reconcile step, with or without a list to render
Reconciled == pc \in {"reconciled", "skipped"}

\* C21 as stated: for every raw row sequence the implemented pipeline gives
\* the list of the specified order of steps (coalesce first, then discard the
\* empty-text records, then the optional sort).
C21_SameAsSpecifiedOrder ==
    Reconciled => annotations = SpecifiedOrder(rows)

\* C21 amended: the implemented pipeline gives the list of the specified
\* order of steps applied to the rows without the whitespace-only rows; a
\* whitespace-only row takes no part in the coalescing, so a blank anchored
\* row does not terminate the group of fragments before it.
C21_SameAsSpecifiedOrderOnRowsWithText ==
    Reconciled => annotations = SpecifiedOrder(SelectSeq(rows, RowHasText))

\* fragment, blank anchored row, anchored row: the fragment is merged into the
\* anchored row after the blank one, which the specified order on the raw
\* rows would not do
C21_Witness ==
    /\ pc = "reconciled"
    /\ Len(rows) = 3
    /\ RowHasText(rows[1]) /\ IsNullLocation(MapRow(rows[1]))
    /\ ~RowHasText(rows[2]) /\ ~IsNullLocation(MapRow(rows[2]))
    /\ RowHasText(rows[3]) /\ ~IsNullLocation(MapRow(rows[3]))
    /\ Len(annotations) = 1
    /\ annotations # SpecifiedOrder(rows)

-----------------------------------------------------------------------------
(* Claim on the arrays handed to the pipeline stages (SpecImport) *)

\* C22: every stage leaves its input untouched: after the grouping and after
\* the sort the array that was passed in still has the same records in the
\* same order as before the call, and no record of it has a changed field.
C22_StagesLeaveInputUntouched ==
    /\ pc # "fetch" => groupArg = groupInput
    /\ (pc = "reconciled" /\ sortAnnotations) => sortArg = sortInput

-----------------------------------------------------------------------------
(* The order of the asynchronous calls. importAllBooks and                   *)
(* importSelectedBooks await every call of an iteration before the next      *)
(* statement runs; showBookSelector maps the listed books to async closures  *)
(* and awaits them together with Promise.all. A call is "inFlight" from the  *)
(* moment it is made until its promise settles. Covers are not saved.        *)

MaxQueued == 2

Commands == {"importAllBooks", "importSelectedBooks", "showBookSelector"}

\* the awaited calls of one loop iteration, and of one closure of the selector
LoopOps == {"fetch", "epub", "note", "authorPage"}

PreviewOps == {"previewFetch", "previewEpub"}

\* the calls that read a book's annotations or its container
FetchOps == {"fetch", "epub", "previewFetch", "previewEpub"}

Started(k, op) == [ops EXCEPT ![k][op] = "inFlight"]

Settled(o, k, op, how) == [o EXCEPT ![k][op] = how]

InFlight(k, op) == ops[k][op] = "inFlight"

\* the command starts with its list of books: the loop takes the first book
StartImport ==
    /\ pc = "command"
    /\ command \in {"importAllBooks", "importSelectedBooks"}
    /\ pc' = "loop"
    /\ loopIndex' = 1
    /\ UNCHANGED <<command, queued, wantsEpub, ops>>
    /\ UNCHANGED <<pipelineVars, mergeVars, chapterVars, batchVars, epubVars, coverVars, modalVars>>

\* for (...) { ... await getAnnotationsForBook(assetId): the iteration of the
\* book the loop is at starts, or the book has no details and is skipped
FetchStarts ==
    /\ pc = "loop"
    /\ loopIndex \in 1..queued
    /\ \A op \in LoopOps : ops[loopIndex][op] = "notStarted"
    /\ \/ /\ ops' = Started(loopIndex, "fetch")
          /\ UNCHANGED loopIndex
       \/ /\ command = "importAllBooks"
          /\ ops' = Settled(ops, loopIndex, "fetch", "skipped")
          /\ loopIndex' = loopIndex + 1
    /\ UNCHANGED <<pc, command, queued, wantsEpub>>
    /\ UNCHANGED <<pipelineVars, mergeVars, chapterVars, batchVars, epubVars, coverVars, modalVars>>

\* the fetch settles: a rejection ends the iteration in the catch, an empty
\* list ends it with `continue`, otherwise the next awaited call is made
FetchReturns ==
    /\ pc = "loop"
    /\ \E k \in 1..queued :
        /\ InFlight(k, "fetch")
        /\ \/ /\ \E how \in {"failed", "completed"} :
                    ops' = Settled(ops, k, "fetch", how)
              /\ loopIndex' = k + 1
           \/ /\ ops' = Settled(Started(k, IF wantsEpub THEN "epub" ELSE "note"),
                                k, "fetch", "completed")
              /\ UNCHANGED loopIndex
    /\ UNCHANGED <<pc, command, queued, wantsEpub>>
    /\ UNCHANGED <<pipelineVars, mergeVars, chapterVars, batchVars, epubVars, coverVars, modalVars>>

\* variant: importBook is called without await, the iteration ends at once
EpubReturns_NoAwait ==
    /\ pc = "loop"
    /\ \E k \in 1..queued :
        /\ InFlight(k, "epub")
        /\ \E how \in {"failed", "completed"} :
              ops' = Settled(Started(k, "note"), k, "epub", how)
        /\ loopIndex' = k + 1
    /\ UNCHANGED <<pc, command, queued, wantsEpub>>
    /\ UNCHANGED <<pipelineVars, mergeVars, chapterVars, batchVars, epubVars, coverVars, modalVars>>

\* await getEpubMetadata(book.path) settles (a rejection is caught inside the
\* iteration), then await this.importBook(enrichedBook, annotations) is made
EpubReturns ==
    /\ pc = "loop"
    /\ \E k \in 1..queued :
        /\ InFlight(k, "epub")
        /\ \E how \in {"failed", "completed"} :
              ops' = Settled(Started(k, "note"), k, "epub", how)
    /\ UNCHANGED <<pc, command, queued, wantsEpub, loopIndex>>
    /\ UNCHANGED <<pipelineVars, mergeVars, chapterVars, batchVars, epubVars, coverVars, modalVars>>

\* importBook: the note is written and createAuthorPageIfNeeded is awaited,
\* or the note is left alone or the write fails and importBook returns
NoteWritten ==
    /\ pc = "loop"
    /\ \E k \in 1..queued :
        /\ InFlight(k, "note")
        /\ \/ /\ ops' = Settled(Started(k, "authorPage"), k, "note", "completed")
              /\ UNCHANGED loopIndex
           \/ /\ \E how \in {"failed", "completed"} :
                    ops' = Settled(ops, k, "note", how)
              /\ loopIndex' = k + 1
    /\ UNCHANGED <<pc, command, queued, wantsEpub>>
    /\ UNCHANGED <<pipelineVars, mergeVars, chapterVars, batchVars, epubVars, coverVars, modalVars>>

\* createAuthorPageIfNeeded settles; importBook returns, the iteration ends
AuthorPageReturns ==
    /\ pc = "loop"
    /\ \E k \in 1..queued :
        /\ InFlight(k, "authorPage")
        /\ \E how \in {"failed", "completed"} :
              ops' = Settled(ops, k, "authorPage", how)
        /\ loopIndex' = k + 1
    /\ UNCHANGED <<pc, command, queued, wantsEpub>>
    /\ UNCHANGED <<pipelineVars, mergeVars, chapterVars, batchVars, epubVars, coverVars, modalVars>>

\* the loop is past the last book and nothing is pending: the result is shown
LoopEnds ==
    /\ pc = "loop"
    /\ loopIndex > queued
    /\ \A k \in 1..queued : \A op \in LoopOps : ~InFlight(k, op)
    /\ pc' = "finished"
    /\ UNCHANGED <<command, queued, wantsEpub, ops, loopIndex>>
    /\ UNCHANGED <<pipelineVars, mergeVars, chapterVars, batchVars, epubVars, coverVars, modalVars>>

\* showBookSelector: .map(async (book) => ...) runs every closure up to its
\* first await, one after the other, before any promise can settle
MapStartsPreviews ==
    /\ pc = "command"
    /\ command = "showBookSelector"
    /\ ops' = [k \in 1..queued |-> [ops[k] EXCEPT !["previewFetch"] = "inFlight"]]
    /\ pc' = "previews"
    /\ UNCHANGED <<command, queued, wantsEpub, loopIndex>>
    /\ UNCHANGED <<pipelineVars, mergeVars, chapterVars, batchVars, epubVars, coverVars, modalVars>>

\* the closure of one book resumes after its fetch (a rejection is caught):
\* it asks for the cover when the settings and the path say so
PreviewFetchReturns ==
    /\ pc = "previews"
    /\ \E k \in 1..queued :
        /\ InFlight(k, "previewFetch")
        /\ \E how \in {"failed", "completed"} :
              ops' = Settled(IF wantsEpub THEN Started(k, "previewEpub") ELSE ops,
                             k, "previewFetch", how)
    /\ UNCHANGED <<pc, command, queued, wantsEpub, loopIndex>>
    /\ UNCHANGED <<pipelineVars, mergeVars, chapterVars, batchVars, epubVars, coverVars, modalVars>>

PreviewEpubReturns ==
    /\ pc = "previews"
    /\ \E k \in 1..queued :
        /\ InFlight(k, "previewEpub")
        /\ \E how \in {"failed", "completed"} :
              ops' = Settled(ops, k, "previewEpub", how)
    /\ UNCHANGED <<pc, command, queued, wantsEpub, loopIndex>>
    /\ UNCHANGED <<pipelineVars, mergeVars, chapterVars, batchVars, epubVars, coverVars, modalVars>>

\* await Promise.all(...) resumes when every closure has returned: the modal
\* opens, or no book is left to show and the command returns
PreviewsDone ==
    /\ pc = "previews"
    /\ \A k \in 1..queued : \A op \in PreviewOps : ~InFlight(k, op)
    /\ pc' \in {"modal", "finished"}
    /\ UNCHANGED <<command, queued, wantsEpub, ops, loopIndex>>
    /\ UNCHANGED <<pipelineVars, mergeVars, chapterVars, batchVars, epubVars, coverVars, modalVars>>

\* the callback of the modal: importSelectedBooks on the selected books (all
\* of them here), or nothing when the modal is cancelled
ModalCallback ==
    /\ pc = "modal"
    /\ \/ /\ pc' = "loop"
          /\ loopIndex' = 1
       \/ /\ pc' = "finished"
          /\ UNCHANGED loopIndex
    /\ UNCHANGED <<command, queued, wantsEpub, ops>>
    /\ UNCHANGED <<pipelineVars, mergeVars, chapterVars, batchVars, epubVars, coverVars, modalVars>>

InitSchedule ==
    /\ pc = "command"
    /\ command \in Commands
    /\ queued \in 1..MaxQueued
    /\ wantsEpub \in BOOLEAN
    /\ ops = [k \in 1..queued |-> [op \in LoopOps \cup PreviewOps |-> "notStarted"]]
    /\ loopIndex = 0
    /\ rows = <<>>
    /\ sortAnnotations = FALSE
    /\ annotations = <<>>
    /\ groupInput = <<>>
    /\ sortInput = <<>>
    /\ groupArg = <<>>
    /\ sortArg = <<>>
    /\ cfi = <<>>
    /\ numbers = <<>>
    /\ MergeIdle
    /\ ChapterIdle
    /\ BatchIdle
    /\ EpubIdle
    /\ CoverIdle
    /\ ModalIdle

NextSchedule ==
    \/ StartImport
    \/ FetchStarts
    \/ FetchReturns
    \/ EpubReturns
    \/ NoteWritten
    \/ AuthorPageReturns
    \/ LoopEnds
    \/ MapStartsPreviews
    \/ PreviewFetchReturns
    \/ PreviewEpubReturns
    \/ PreviewsDone
    \/ ModalCallback

SpecSchedule == InitSchedule /\ [][NextSchedule]_vars

\* some call of book k is in flight
Busy(k, callSet) == \E op \in callSet : InFlight(k, op)

\* some step of the loop on book k has started
Begun(k) == \E op \in LoopOps : ops[k][op] # "notStarted"

\* every step of book k has completed or failed before any step of the next
\* book starts
OneBookAtATime ==
    \A k \in 1..queued : \A j \in 1..queued :
        (k < j /\ Begun(j)) => ~Busy(k, LoopOps)

\* the books with a fetch in flight
Fetching == {k \in 1..queued : Busy(k, FetchOps)}

\* C23 as stated: the loops take the books strictly one after another, and
\* nowhere in the plugin is a fetch of one book in flight while a fetch of
\* another book is in flight.
C23_OneBookAtATimeEverywhere ==
    /\ OneBookAtATime
    /\ Cardinality(Fetching) <= 1

\* C23 amended: the loops of importAllBooks and importSelectedBooks take the
\* books strictly one after another and have at most one book's fetch in
\* flight; showBookSelector starts the annotation fetch of every listed book
\* before any of them settles, and has settled all of them before the modal
\* opens.
C23_OneBookAtATimeInTheLoops ==
    /\ OneBookAtATime
    /\ pc # "previews" => Fetching = {}  \/ (pc = "loop" /\ Cardinality(Fetching) = 1)
    /\ pc = "previews" =>
          \A k \in 1..queued : ops[k]["previewFetch"] # "notStarted"

\* the loop is at the second book, whose fetch is in flight after the first
\* book went through every step
C23_Witness ==
    /\ pc = "loop"
    /\ queued >= 2
    /\ ops[1]["authorPage"] = "completed"
    /\ InFlight(2, "fetch")

-----------------------------------------------------------------------------
(* Claim on an OPF file that does not parse (SpecEpub) *)

\* C24: getEpubMetadata returns null when the OPF file exists and can be read
\* but its content is malformed XML without any Dublin Core element.
C24_MalformedOpfGivesNull ==
    (pc = "returned" /\ NamesOpf /\ epubFiles.opf = "readable"
        /\ epubFiles.opfContent = MalformedOpf) => epubResult.result.isNull

-----------------------------------------------------------------------------
(* findCoverImage. A path is the sequence of its segments below the EPUB     *)
(* directory; path.join appends segments. The OPF is given by what the       *)
(* regular expressions of the function find in it: the href of the manifest  *)
(* item named by <meta name="cover">, the href of the item with id="cover",  *)
(* and the href of the first item with a cover-like href.                    *)

\* no match of the regular expression
NoHref == <<>>

\* const epubContentRoots = ['OEBPS', 'OPS']
epubContentRoots == <<"OEBPS", "OPS">>

\* const commonImageFolders = ['images', 'Images', 'Pictures']
commonImageFolders == <<"images", "Images", "Pictures">>

\* /^(cover|thumbnail|frontcover)\.(jpg|jpeg|png|gif)$/i on the lower-case
\* file names used here
commonImageNames ==
    {"cover.jpg", "cover.jpeg", "cover.png", "cover.gif",
     "thumbnail.jpg", "thumbnail.jpeg", "thumbnail.png", "thumbnail.gif",
     "frontcover.jpg", "frontcover.jpeg", "frontcover.png", "frontcover.gif"}

NotFound == [found |-> FALSE, path |-> <<>>]
Found(p) == [found |-> TRUE, path |-> p]

\* fs.existsSync on a file or on a directory
ExistsSync(p, files, unlistable) ==
    \/ p \in files
    \/ p \in unlistable
    \/ \E f \in files : Len(f) > Len(p) /\ SubSeq(f, 1, Len(p)) = p

\* the entries of fs.readdirSync(dir) that pass commonImageNames.test
NamedFilesIn(dir, files) ==
    {f \in files : /\ Len(f) = Len(dir) + 1
                   /\ SubSeq(f, 1, Len(dir)) = dir
                   /\ f[Len(f)] \in commonImageNames}

File(p) == [kind |-> "file", path |-> p]
List(dir) == [kind |-> "list", path |-> dir]

\* existsSync(path.join(epubDir, rootDir, coverHref)) for each content root
MetaCoverProbes(opf) ==
    IF opf.metaCover = NoHref THEN <<>>
    ELSE [r \in 1..Len(epubContentRoots) |-> File(<<epubContentRoots[r]>> \o opf.metaCover)]

\* itemCoverMatch: the item with id="cover" || the first cover-like href; for
\* each content root the path below the root, then the path below the EPUB
\* directory
ItemCoverProbes(opf) ==
    LET coverHref == IF opf.idCover # NoHref THEN opf.idCover ELSE opf.coverLike
    IN  IF coverHref = NoHref THEN <<>>
        ELSE <<File(<<epubContentRoots[1]>> \o coverHref), File(coverHref),
               File(<<epubContentRoots[2]>> \o coverHref), File(coverHref)>>

\* the content root, then its image folders
ContentRootProbes(rootDir) ==
    <<List(<<rootDir>>)>>
        \o [k \in 1..Len(commonImageFolders) |-> List(<<rootDir, commonImageFolders[k]>>)]

\* the image folders directly below the EPUB directory
RootFolderProbes == [k \in 1..Len(commonImageFolders) |-> List(<<commonImageFolders[k]>>)]

\* variant: the fallback folders are searched before the manifest is used
CoverProbes_FoldersFirst(opf) ==
    ContentRootProbes(epubContentRoots[1]) \o ContentRootProbes(epubContentRoots[2])
        \o RootFolderProbes \o MetaCoverProbes(opf) \o ItemCoverProbes(opf)

\* the places findCoverImage looks at, in the order of its statements
CoverProbes(opf) ==
    MetaCoverProbes(opf) \o ItemCoverProbes(opf)
        \o ContentRootProbes(epubContentRoots[1]) \o ContentRootProbes(epubContentRoots[2])
        \o RootFolderProbes

\* the body of findCoverImage from probe i on: the first file that exists is
\* returned; a directory that exists is listed and its first file with a
\* common name is returned; readdirSync throwing ends in the catch, which
\* returns null
RECURSIVE RunProbes(_, _, _, _)
RunProbes(probes, i, files, unlistable) ==
    IF i > Len(probes) THEN NotFound
    ELSE LET p == probes[i].path
         IN  IF probes[i].kind = "file"
             THEN IF ExistsSync(p, files, unlistable) THEN Found(p)
                  ELSE RunProbes(probes, i + 1, files, unlistable)
             ELSE IF ~ExistsSync(p, files, unlistable)
                  THEN RunProbes(probes, i + 1, files, unlistable)
             ELSE IF p \in unlistable THEN NotFound
             ELSE IF NamedFilesIn(p, files) # {}
                  THEN Found(CHOOSE f \in NamedFilesIn(p, files) : TRUE)
             ELSE RunProbes(probes, i + 1, files, unlistable)

FindCoverImage(opf, files, unlistable) == RunProbes(CoverProbes(opf), 1, files, unlistable)

\* images/cover.jpg, art/front.png, cover-pic.png
HrefImagesCover == <<"images", "cover.jpg">>
HrefArtFront == <<"art", "front.png">>
HrefCoverPic == <<"cover-pic.png">>

CoverOpfs ==
    [metaCover : {NoHref, HrefImagesCover, HrefArtFront},
     idCover   : {NoHref, HrefCoverPic, HrefArtFront},
     coverLike : {NoHref, HrefImagesCover}]

\* the files an EPUB directory may hold
CoverFileUniverse ==
    { <<"OEBPS", "images", "cover.jpg">>, <<"OPS", "images", "cover.jpg">>,
      <<"images", "cover.jpg">>, <<"OEBPS", "art", "front.png">>, <<"art", "front.png">>,
      <<"OEBPS", "cover-pic.png">>, <<"OPS", "thumbnail.png">>,
      <<"Pictures", "frontcover.gif">> }

InitCover ==
    /\ pc = "cover"
    /\ coverOpf \in CoverOpfs
    /\ coverFiles \in SUBSET CoverFileUniverse
    /\ coverUnlistable \in {{}, {<<"OEBPS">>}}
    /\ coverResult = NotFound
    /\ rows = <<>>
    /\ sortAnnotations = FALSE
    /\ annotations = <<>>
    /\ groupInput = <<>>
    /\ sortInput = <<>>
    /\ groupArg = <<>>
    /\ sortArg = <<>>
    /\ cfi = <<>>
    /\ numbers = <<>>
    /\ MergeIdle
    /\ ChapterIdle
    /\ BatchIdle
    /\ EpubIdle
    /\ ScheduleIdle
    /\ ModalIdle

\* const coverPath = await this.findCoverImage(epubDir, opfContent)
CallFindCoverImage ==
    /\ pc = "cover"
    /\ coverResult' = FindCoverImage(coverOpf, coverFiles, coverUnlistable)
    /\ pc' = "coverReturned"
    /\ UNCHANGED <<coverOpf, coverFiles, coverUnlistable>>
    /\ UNCHANGED <<pipelineVars, mergeVars, chapterVars, batchVars, epubVars, scheduleVars, modalVars>>

NextCover == CallFindCoverImage

SpecCover == InitCover /\ [][NextCover]_vars

-----------------------------------------------------------------------------
(* Claim on the cover search (SpecCover) *)

\* the file name of p is cover, thumbnail or frontcover with an image suffix
CommonName(p) == p[Len(p)] \in commonImageNames

InSet(x, seq) == \E k \in 1..Len(seq) : seq[k] = x

\* the href priority 2 uses: of the item with id="cover" when the manifest
\* has one, else of the item with a cover-like href
ItemHref == IF coverOpf.idCover # NoHref THEN coverOpf.idCover ELSE coverOpf.coverLike

\* p is a candidate of priority c
CandidateOf(p, c) ==
    CASE c = 1 -> /\ coverOpf.metaCover # NoHref
                  /\ \E r \in 1..2 : p = <<epubContentRoots[r]>> \o coverOpf.metaCover
      [] c = 2 -> /\ ItemHref # NoHref
                  /\ \/ p = ItemHref
                     \/ \E r \in 1..2 : p = <<epubContentRoots[r]>> \o ItemHref
      [] c = 3 -> /\ CommonName(p)
                  /\ InSet(p[1], epubContentRoots)
                  /\ \/ Len(p) = 2
                     \/ Len(p) = 3 /\ InSet(p[2], commonImageFolders)
      [] c = 4 -> /\ CommonName(p)
                  /\ Len(p) = 2
                  /\ InSet(p[1], commonImageFolders)

\* the candidates of priority c whose file exists
ExistingCandidates(c) == {p \in coverFiles : CandidateOf(p, c)}

AllExistingCandidates == UNION {ExistingCandidates(c) : c \in 1..4}

\* the returned path exists and no candidate of a higher priority exists
FirstInPriorityOrder ==
    coverResult.found =>
        /\ coverResult.path \in coverFiles
        /\ \E c \in 1..4 :
              /\ coverResult.path \in ExistingCandidates(c)
              /\ \A b \in 1..(c - 1) : ExistingCandidates(b) = {}

-----------------------------------------------------------------------------
(* Claims on the calls of an import (SpecBatch, SpecTwice) *)

\* the positions in calls of the calls named op
CallsOf(op) == {c \in 1..Len(calls) : calls[c].op = op}

\* the books the calls named op were made for, in the order of the calls
RECURSIVE BooksCalled(_, _)
BooksCalled(op, from) ==
    IF from > Len(calls) THEN <<>>
    ELSE IF calls[from].op = op THEN <<calls[from].book>> \o BooksCalled(op, from + 1)
    ELSE BooksCalled(op, from + 1)

\* the iterations that went past the filter with at least one annotation
WithAnnotations == {k \in 1..Len(log) : log[k].fetched = "some"}

\* C26: importSelectedBooks fetches the annotations once per selected book,
\* in selection order, and renders one note per book with a non-empty
\* annotation; an empty selection makes no fetch, no rendering and no vault
\* write; the output folder is created, when missing, before the note is
\* created in it.
C26_FetchAndRenderOncePerBook ==
    (entry = "importSelectedBooks" /\ pc \in {"loop", "done"}) =>
        /\ BooksCalled("fetch", 1) = [k \in 1..Len(log) |-> k]
        /\ \A k \in 1..Len(log) :
              Cardinality({c \in CallsOf("render") : calls[c].book = k}) =
                  IF k \in WithAnnotations THEN 1 ELSE 0
        /\ Len(books) = 0 => calls = <<>> /\ vault = vaultAtStart
        /\ \A c \in CallsOf("create") :
              \/ vaultAtStart.folder
              \/ \E b \in CallsOf("createFolder") : b < c /\ calls[b].ok

\* two books are selected, the first has no annotation left, the second is
\* written into the output folder, which the import created
C26_Witness ==
    /\ entry = "importSelectedBooks"
    /\ pc = "done"
    /\ Len(books) = 2
    /\ log[1].fetched = "empty"
    /\ log[2].wrote = "create"
    /\ ~vaultAtStart.folder
    /\ vault.folder

\* the calls made for the author page during the iteration of book k
AuthorCalls(k) ==
    {c \in 1..Len(calls) :
        calls[c].book = k /\ calls[c].op \in {"createAuthorsFolder", "createAuthorPage"}}

\* C27: with author pages enabled, importing a book ensures the author page
\* exists (unless creating the folder or the page failed, which is swallowed
\* and leaves the book counted as imported), and an author page that exists
\* is never overwritten or created again.
C27_AuthorPageEnsuredNeverOverwritten ==
    (pc \in {"loop", "done"} /\ settings.createAuthorPages) =>
        /\ (Len(log) > 0 /\ log[Len(log)].result = "imported") =>
              \/ vault.authorPage # "absent"
              \/ \E c \in AuthorCalls(Len(log)) : ~calls[c].ok
        /\ vaultAtStart.authorPage = "existing" =>
              /\ vault.authorPage = "existing"
              /\ CallsOf("createAuthorPage") = {}
        /\ Cardinality({c \in CallsOf("createAuthorPage") : calls[c].ok}) <= 1
        /\ \A k \in 1..Len(log) :
              (\E c \in AuthorCalls(k) : ~calls[c].ok) => log[k].result = "imported"

-----------------------------------------------------------------------------
(* BookSelectionModal. A book is its assetId; the books handed to the modal  *)
(* have different assetIds. The select-all control is the element the modal  *)
(* keeps in selectAllCheckbox, with its checked and indeterminate            *)
(* properties; it is undefined until onOpen has run.                         *)

MaxModalBooks == 3

AssetIds == 1..MaxModalBooks

\* the lists of different books of up to MaxModalBooks books
BookLists ==
    {bs \in UNION {[1..n -> AssetIds] : n \in 0..MaxModalBooks} :
        \A i \in 1..Len(bs) : \A j \in 1..Len(bs) : bs[i] = bs[j] => i = j}

Range(f) == {f[x] : x \in DOMAIN f}

\* the constructor: selectionStates.set(book.assetId, true) for every book
Constructor(bs) == [b \in Range(bs) |-> TRUE]

NoCheckbox == [defined |-> FALSE, checked |-> FALSE, indeterminate |-> FALSE]

\* variant: a partial selection shows the control checked and determinate
UpdateSelectAllCheckboxVisualState_PartialChecked(box, states) ==
    IF ~box.defined THEN box
    ELSE [defined |-> TRUE,
          checked |-> \E b \in DOMAIN states : states[b],
          indeterminate |-> FALSE]

\* updateSelectAllCheckboxVisualState on the states of the map
UpdateSelectAllCheckboxVisualState(box, states) ==
    IF ~box.defined THEN box
    ELSE LET allSelected == \A b \in DOMAIN states : states[b]
             noneSelected == \A b \in DOMAIN states : ~states[b]
         IN  IF allSelected
             THEN [defined |-> TRUE, checked |-> TRUE, indeterminate |-> FALSE]
             ELSE IF noneSelected
             THEN [defined |-> TRUE, checked |-> FALSE, indeterminate |-> FALSE]
             ELSE [defined |-> TRUE, checked |-> FALSE, indeterminate |-> TRUE]

\* variant: every displayed book is handed to the callback
SelectedBooksToImport_All(bs, states) == bs

\* the argument of onImportCallback: the displayed books whose assetId is
\* among the selected entries of the map, in display order
SelectedBooksToImport(bs, states) ==
    LET selectedAssetIds == {b \in DOMAIN states : states[b]}
    IN  SelectSeq(bs, LAMBDA b : b \in selectedAssetIds)

InitModal ==
    /\ pc = "constructed"
    /\ booksToDisplay \in BookLists
    /\ selectionStates = Constructor(booksToDisplay)
    /\ selectAllCheckbox = NoCheckbox
    /\ lastEvent = [kind |-> "none", value |-> FALSE]
    /\ callbackCalls = <<>>
    /\ rows = <<>>
    /\ sortAnnotations = FALSE
    /\ annotations = <<>>
    /\ groupInput = <<>>
    /\ sortInput = <<>>
    /\ groupArg = <<>>
    /\ sortArg = <<>>
    /\ cfi = <<>>
    /\ numbers = <<>>
    /\ MergeIdle
    /\ ChapterIdle
    /\ BatchIdle
    /\ EpubIdle
    /\ ScheduleIdle
    /\ CoverIdle

\* onOpen: the control is created, checked when every book is selected, and
\* its visual state is initialised; the list and the buttons are rendered
OnOpen ==
    /\ pc = "constructed"
    /\ selectAllCheckbox' =
          UpdateSelectAllCheckboxVisualState(
              [defined |-> TRUE,
               checked |-> \A k \in 1..Len(booksToDisplay) : selectionStates[booksToDisplay[k]],
               indeterminate |-> FALSE],
              selectionStates)
    /\ pc' = "open"
    /\ UNCHANGED <<booksToDisplay, selectionStates, lastEvent, callbackCalls>>
    /\ UNCHANGED <<pipelineVars, mergeVars, chapterVars, batchVars, epubVars, scheduleVars, coverVars>>

\* checkboxEl.onchange of one book: the map takes the new value of the box
CheckboxChange ==
    /\ pc = "open"
    /\ \E k \in 1..Len(booksToDisplay) :
          LET b == booksToDisplay[k]
              states == [selectionStates EXCEPT ![b] = ~selectionStates[b]]
          IN  /\ selectionStates' = states
              /\ selectAllCheckbox' =
                    UpdateSelectAllCheckboxVisualState(selectAllCheckbox, states)
              /\ lastEvent' = [kind |-> "checkbox", value |-> states[b]]
    /\ UNCHANGED <<pc, booksToDisplay, callbackCalls>>
    /\ UNCHANGED <<pipelineVars, mergeVars, chapterVars, batchVars, epubVars, scheduleVars, coverVars>>

\* toggle.onChange(value) of the select-all control
ToggleSelectAll ==
    /\ pc = "open"
    /\ \E value \in BOOLEAN :
          LET states == [b \in DOMAIN selectionStates |->
                            IF b \in Range(booksToDisplay) THEN value ELSE selectionStates[b]]
          IN  /\ selectionStates' = states
              /\ selectAllCheckbox' =
                    UpdateSelectAllCheckboxVisualState(selectAllCheckbox, states)
              /\ lastEvent' = [kind |-> "toggle", value |-> value]
    /\ UNCHANGED <<pc, booksToDisplay, callbackCalls>>
    /\ UNCHANGED <<pipelineVars, mergeVars, chapterVars, batchVars, epubVars, scheduleVars, coverVars>>

\* the Import Selected button: the callback is called, then the modal closes
ImportSelected ==
    /\ pc = "open"
    /\ callbackCalls' =
          Append(callbackCalls, SelectedBooksToImport(booksToDisplay, selectionStates))
    /\ lastEvent' = [kind |-> "import", value |-> FALSE]
    /\ pc' = "closed"
    /\ UNCHANGED <<booksToDisplay, selectionStates, selectAllCheckbox>>
    /\ UNCHANGED <<pipelineVars, mergeVars, chapterVars, batchVars, epubVars, scheduleVars, coverVars>>

\* the Cancel button
Cancel ==
    /\ pc = "open"
    /\ lastEvent' = [kind |-> "cancel", value |-> FALSE]
    /\ pc' = "closed"
    /\ UNCHANGED <<booksToDisplay, selectionStates, selectAllCheckbox, callbackCalls>>
    /\ UNCHANGED <<pipelineVars, mergeVars, chapterVars, batchVars, epubVars, scheduleVars, coverVars>>

NextModal == OnOpen \/ CheckboxChange \/ ToggleSelectAll \/ ImportSelected \/ Cancel

SpecModal == InitModal /\ [][NextModal]_vars

-----------------------------------------------------------------------------
(* Claims on BookSelectionModal (SpecModal) *)

Selected(k) == selectionStates[booksToDisplay[k]]

EveryBookSelected == \A k \in 1..Len(booksToDisplay) : Selected(k)

NoBookSelected == \A k \in 1..Len(booksToDisplay) : ~Selected(k)

\* C28: after construction every book is selected; a select-all toggle to v
\* leaves every book's state equal to v; the control is checked and
\* determinate iff every book is selected, unchecked and determinate iff no
\* book is selected and there is a book, indeterminate iff some but not all
\* books are selected.
C28_SelectAllReflectsSelection ==
    /\ pc = "constructed" => EveryBookSelected
    /\ lastEvent.kind = "toggle" =>
          \A k \in 1..Len(booksToDisplay) : Selected(k) = lastEvent.value
    /\ pc = "open" =>
          /\ (selectAllCheckbox.checked /\ ~selectAllCheckbox.indeterminate)
                <=> EveryBookSelected
          /\ (~selectAllCheckbox.checked /\ ~selectAllCheckbox.indeterminate)
                <=> (NoBookSelected /\ Len(booksToDisplay) > 0)
          /\ selectAllCheckbox.indeterminate
                <=> (~EveryBookSelected /\ ~NoBookSelected)

\* one of three books was unticked: the control is indeterminate
C28_Witness ==
    /\ pc = "open"
    /\ Len(booksToDisplay) = 3
    /\ lastEvent = [kind |-> "checkbox", value |-> FALSE]
    /\ Selected(1) /\ ~Selected(2) /\ Selected(3)
    /\ selectAllCheckbox.indeterminate
    /\ ~selectAllCheckbox.checked

\* the displayed books that are selected, in display order
RECURSIVE SelectedInOrder(_)
SelectedInOrder(k) ==
    IF k > Len(booksToDisplay) THEN <<>>
    ELSE (IF Selected(k) THEN <<booksToDisplay[k]>> ELSE <<>>) \o SelectedInOrder(k + 1)

\* C29: Import Selected calls the callback exactly once, with the displayed
\* books whose selection state is true, in display order, and closes the
\* modal; Cancel closes the modal and the callback is never called.
C29_ImportCallsBackOnceCancelNever ==
    /\ lastEvent.kind = "import" =>
          /\ pc = "closed"
          /\ callbackCalls = <<SelectedInOrder(1)>>
    /\ lastEvent.kind = "cancel" =>
          /\ pc = "closed"
          /\ callbackCalls = <<>>
    /\ pc # "closed" => callbackCalls = <<>>

\* the first of three books was unticked and Import Selected handed over the
\* other two in display order
C29_Witness ==
    /\ pc = "closed"
    /\ lastEvent.kind = "import"
    /\ Len(booksToDisplay) = 3
    /\ booksToDisplay[2] > booksToDisplay[3]
    /\ callbackCalls = <<SubSeq(booksToDisplay, 2, 3)>>

====
